---- MODULE Spec2Model ----
(***************************************************************************)
(* SQLGenerator of backend/tools/tool1_sql_generator.py: the SQL repair    *)
(* pipeline (_fix_sql), the geometry classifier, the retry controller      *)
(* (generate_sql_with_retry) and the execution gateway (execute).          *)
(*                                                                         *)
(* Text is a sequence of tokens.  A token is a maximal run of word         *)
(* characters (an identifier, a keyword, a number), one whitespace         *)
(* character, one punctuation character or one quoted literal, so that     *)
(* the concatenation of the tokens is the Python string.  Regular          *)
(* expressions of the source are patterns over tokens; \b holds at every   *)
(* border of a word token.                                                 *)
(***************************************************************************)
EXTENDS Integers, Sequences, FiniteSets, TLC

\* ------------------------------------------------------------------ text

WS == {" ", "\n"}

Punct == {"*", ",", "(", ")", ".", ";", "="}

Literals == {"'gold'", "'copper'"}

\* str.lower() on one token: the tokens that hold upper-case letters.
LowerMap ==
    ("SELECT" :> "select") @@ ("FROM" :> "from") @@ ("JOIN" :> "join")
    @@ ("ON" :> "on") @@ ("WHERE" :> "where") @@ ("AND" :> "and")
    @@ ("OR" :> "or") @@ ("AS" :> "as") @@ ("DISTINCT" :> "distinct")
    @@ ("ILIKE" :> "ilike") @@ ("DROP" :> "drop") @@ ("TABLE" :> "table")
    @@ ("DELETE" :> "delete") @@ ("COUNT" :> "count")
    @@ ("ST_Y" :> "st_y") @@ ("ST_X" :> "st_x")
    @@ ("ST_Transform" :> "st_transform") @@ ("ST_SetSRID" :> "st_setsrid")
    @@ ("ST_AsGeoJSON" :> "st_asgeojson")
    @@ ("ST_Intersects" :> "st_intersects") @@ ("ST_DWithin" :> "st_dwithin")
    @@ ("ST_Within" :> "st_within") @@ ("ST_Contains" :> "st_contains")
    @@ ("ST_Crosses" :> "st_crosses") @@ ("GEOM" :> "geom")
    @@ ("MODS" :> "mods") @@ ("ID" :> "id") @@ ("LIMIT" :> "limit")
    @@ ("Show" :> "show") @@ ("Riyadh" :> "riyadh")

Lower(t) == IF t \in DOMAIN LowerMap THEN LowerMap[t] ELSE t

IsWord(t) == t \notin WS /\ t \notin Punct /\ t \notin Literals /\ t # "N/A"

\* Character classes of the patterns, one token each.
CI(S) == [k |-> "ci", s |-> S]
CS(S) == [k |-> "cs", s |-> S]
Not(S) == [k |-> "not", s |-> S]
Word == [k |-> "word", s |-> {}]
Space == CS(WS)

TokIn(c, t) ==
    CASE c.k = "ci" -> Lower(t) \in c.s
      [] c.k = "cs" -> t \in c.s
      [] c.k = "not" -> t \notin c.s
      [] c.k = "word" -> IsWord(t)

\* Pattern items: a group of classes with a quantifier.
One(c) == [q |-> "1", g |-> <<c>>]
Opt(g) == [q |-> "?", g |-> g]
Star(c) == [q |-> "*", g |-> <<c>>]
Plus(c) == [q |-> "+", g |-> <<c>>]
Kw(w) == One(CI({w}))

\* The position after group g matched at i, or 0.
MatchGroup(g, s, i) ==
    IF i + Len(g) - 1 <= Len(s) /\ \A j \in 1..Len(g) : TokIn(g[j], s[i + j - 1])
    THEN i + Len(g)
    ELSE 0

\* r unless it is 0 (no match), then alt: one step of backtracking.
Try(r, alt) == IF r # 0 THEN r ELSE alt

RECURSIVE MatchFrom(_, _, _, _)
RECURSIVE MatchItem(_, _, _, _, _, _)
\* re.match of items k.. of pat at position i: the position after the match
\* (greedy, backtracking), or 0.
MatchFrom(pat, k, s, i) ==
    IF k > Len(pat) THEN i
    ELSE MatchItem(pat, k, s, i, pat[k].q, MatchGroup(pat[k].g, s, i))

\* Item k has quantifier q and its group matched once at i up to e (0: not).
MatchItem(pat, k, s, i, q, e) ==
    CASE q = "1" -> IF e = 0 THEN 0 ELSE MatchFrom(pat, k + 1, s, e)
      [] q = "?" -> Try(IF e = 0 THEN 0 ELSE MatchFrom(pat, k + 1, s, e),
                        MatchFrom(pat, k + 1, s, i))
      [] q = "*" -> Try(IF e = 0 THEN 0 ELSE MatchFrom(pat, k, s, e),
                        MatchFrom(pat, k + 1, s, i))
      [] q = "+" -> IF e = 0 THEN 0
                    ELSE MatchFrom([pat EXCEPT ![k].q = "*"], k, s, e)

\* The least element of a non-empty set of positions.
Min(S) == CHOOSE j \in S : \A h \in S : j <= h

\* For each position of s, where a match of pat that starts there ends (0:
\* none starts there).
Matches(pat, s) == [j \in 1..Len(s) |-> MatchFrom(pat, 1, s, j)]

\* The first position >= i where a match starts, Len(m) + 1 if none.
FirstHit(m, i) == Min({j \in i..Len(m) : m[j] # 0} \cup {Len(m) + 1})

\* The span <<start, end>> (end exclusive) of the match at j, <<>> past the end.
SpanAt(m, j) == IF j > Len(m) THEN <<>> ELSE <<j, m[j]>>

RECURSIVE PickSpans(_, _)
RECURSIVE PickAt(_, _)
\* The matches re.sub takes from position i on: the leftmost, then the
\* leftmost after its end, and so on.
PickSpans(m, i) == PickAt(m, FirstHit(m, i))

PickAt(m, j) == IF j > Len(m) THEN <<>> ELSE <<SpanAt(m, j)>> \o PickSpans(m, m[j])

\* The spans of the leftmost non-overlapping matches of pat in s, as re.sub
\* and re.finditer scan.
FindAll(pat, s) == PickSpans(Matches(pat, s), 1)

SearchIn(m) == SpanAt(m, FirstHit(m, 1))

\* re.search(pat, s): the first span, or <<>>.
ReSearch(pat, s) == SearchIn(Matches(pat, s))

Slice(s, span) == SubSeq(s, span[1], span[2] - 1)

\* F(x), with x evaluated before F is entered: the statements of the source
\* run one after the other.
Then(x, F(_)) == CHOOSE y \in {F(v) : v \in {x}} : TRUE

\* Where the text between match k - 1 and match k starts.
From(spans, k) == IF k = 1 THEN 1 ELSE spans[k - 1][2]

\* s with each span replaced by Repl of its text.
Splice(Repl(_), s, spans) ==
    LET out[k \in 0..Len(spans)] ==
            IF k = 0 THEN <<>>
            ELSE out[k - 1] \o SubSeq(s, From(spans, k), spans[k][1] - 1)
                 \o Repl(Slice(s, spans[k]))
    IN out[Len(spans)] \o SubSeq(s, From(spans, Len(spans) + 1), Len(s))

\* The first n of the matches found; all of them for n = 0.
Limit(found, n) == IF n > 0 /\ Len(found) > n THEN SubSeq(found, 1, n) ELSE found

\* re.sub(pat, Repl, s, count=n): Repl gets the matched text; n = 0 is all.
ReSubN(pat, Repl(_), s, n) == Splice(Repl, s, Limit(FindAll(pat, s), n))

ReSub(pat, Repl(_), s) == ReSubN(pat, Repl, s, 0)

\* needle in s.lower(), needle a lower-case text that starts and ends on a
\* token border of s (the alphabet holds no token that extends a needle).
Contains(s, needle) ==
    \E i \in 1..Len(s) :
        /\ i + Len(needle) - 1 <= Len(s)
        /\ \A j \in 1..Len(needle) : Lower(s[i + j - 1]) = needle[j]

\* str.strip(), str.rstrip() and rstrip(',').
RECURSIVE RStrip(_, _)
RStrip(s, chars) ==
    IF s # <<>> /\ s[Len(s)] \in chars THEN RStrip(SubSeq(s, 1, Len(s) - 1), chars)
    ELSE s

RECURSIVE LStrip(_, _)
LStrip(s, chars) ==
    IF s # <<>> /\ s[1] \in chars THEN LStrip(Tail(s), chars) ELSE s

Strip(s) == LStrip(RStrip(s, WS), WS)

\* ------------------------------------------------- _fix_sql: the rules

\* "a, b, c": the tokens of a comma-separated list.
RECURSIVE CommaList(_)
CommaList(items) ==
    IF Len(items) = 0 THEN <<>>
    ELSE IF Len(items) = 1 THEN items[1]
    ELSE items[1] \o <<",", " ">> \o CommaList(Tail(items))

\* ST_SetSRID(<ref>, 3857)
SetSRID(ref) == <<"ST_SetSRID", "(">> \o ref \o <<",", " ", "3857", ")">>

\* <fn>(ST_Transform(ST_SetSRID(<ref>, 3857), 4326)) AS <alias>
TransformExpr(fn, ref, alias) ==
    <<fn, "(", "ST_Transform", "(">> \o SetSRID(ref)
    \o <<",", " ", "4326", ")", ")", " ", "AS", " ", alias>>

GeoJsonExpr(ref) == TransformExpr("ST_AsGeoJSON", ref, "geojson_geom")

LatLonExprs ==
    <<TransformExpr("ST_Y", <<"geom">>, "latitude"),
      TransformExpr("ST_X", <<"geom">>, "longitude")>>

Names(ns) == [i \in 1..Len(ns) |-> <<ns[i]>>]

\* The replacements dict of _fix_select_star, in its insertion order.
StarReplacements ==
    << [table |-> "geology_faults_contacts_master",
        columns |-> CommaList(Names(<<"gid", "newtype", "shape_leng">>)
                              \o <<GeoJsonExpr(<<"geom">>)>>)],
       [table |-> "geology_master",
        columns |-> CommaList(Names(<<"gid", "unit_name", "main_litho",
                                      "litho_fmly", "terrane">>)
                              \o <<GeoJsonExpr(<<"geom">>)>>)],
       [table |-> "mods",
        columns |-> CommaList(Names(<<"gid", "eng_name", "major_comm",
                                      "minor_comm", "region", "occ_imp">>)
                              \o LatLonExprs)],
       [table |-> "borholes",
        columns |-> CommaList(Names(<<"gid", "project_na", "borehole_i",
                                      "elements">>) \o LatLonExprs)],
       [table |-> "surface_samples",
        columns |-> CommaList(Names(<<"gid", "sampleid", "sampletype",
                                      "elements">>) \o LatLonExprs)] >>

SelectStarFrom ==
    <<Kw("select"), Plus(Space), One(CS({"*"})), Plus(Space), Kw("from")>>

\* The first entry of the replacements whose table name occurs anywhere in
\* the lower-cased statement (the loop breaks there), or 0.
FirstTableIn(sql) ==
    LET hits == {k \in 1..Len(StarReplacements) :
                    Contains(sql, <<StarReplacements[k].table>>)}
    IN IF hits = {} THEN 0 ELSE CHOOSE k \in hits : \A j \in hits : k <= j

_fix_select_star(sql) ==
    IF ReSearch(SelectStarFrom, sql) = <<>> THEN sql
    ELSE LET k == FirstTableIn(sql)
         IN IF k = 0 THEN sql
            ELSE LET r == StarReplacements[k]
                 IN ReSub(SelectStarFrom \o <<Plus(Space), Kw(r.table)>>,
                          LAMBDA m : <<"SELECT", " ">> \o r.columns
                                     \o <<" ", "FROM", " ", r.table>>,
                          sql)

\* The identifiers of the alphabet that match \w+_deposits, \w+_mines and
\* \w+_sites.
CompoundNames ==
    <<{"gold_deposits"}, {"gold_mines"}, {"mining_sites"}>>

SimpleFixes ==
    << [wrong |-> "deposits", correct |-> "mods"],
       [wrong |-> "mines", correct |-> "mods"],
       [wrong |-> "sites", correct |-> "mods"],
       [wrong |-> "faults", correct |-> "geology_faults_contacts_master"],
       [wrong |-> "areas", correct |-> "geology_master"],
       [wrong |-> "zones", correct |-> "geology_master"] >>

FromOrJoin == One(CI({"from", "join"}))

\* re.sub(r'(FROM|JOIN)\s+<names>\b', r'\1 <correct>', sql)
FixTable(sql, names, correct) ==
    ReSub(<<FromOrJoin, Plus(Space), One(CI(names))>>,
          LAMBDA m : <<m[1], " ", correct>>, sql)

RECURSIVE FixSimpleNames(_, _)
FixSimpleNames(sql, k) ==
    IF k > Len(SimpleFixes) THEN sql
    ELSE Then(FixTable(sql, {SimpleFixes[k].wrong}, SimpleFixes[k].correct),
              LAMBDA v : FixSimpleNames(v, k + 1))

_fix_table_names(sql) ==
    Then(Then(Then(FixTable(sql, CompoundNames[1], "mods"),
                   LAMBDA v : FixTable(v, CompoundNames[2], "mods")),
              LAMBDA v : FixTable(v, CompoundNames[3], "mods")),
         LAMBDA v : FixSimpleNames(v, 1))

\* column_fixes of _fix_column_names, in insertion order.
ColumnFixes ==
    << <<"deposit_id", "gid">>, <<"mine_id", "gid">>, <<"site_id", "gid">>,
       <<"area_id", "gid">>, <<"fault_id", "gid">>,
       <<"deposit_name", "eng_name">>, <<"mine_name", "eng_name">>,
       <<"site_name", "eng_name">>, <<"area_name", "unit_name">>,
       <<"fault_name", "newtype">>, <<"fault_type", "newtype">>,
       <<"commodity", "major_comm">>, <<"importance", "occ_imp">>,
       <<"rock_type", "main_litho">>, <<"lithology", "main_litho">> >>

\* The loop over column_fixes.  Each pattern \b<wrong>\b matches one whole
\* token and no replacement is itself a wrong name, so the fifteen re.sub
\* calls in sequence rewrite each token by the fix that names it.
FixColumns(sql) ==
    [i \in 1..Len(sql) |->
        LET hit == {k \in 1..Len(ColumnFixes) : Lower(sql[i]) = ColumnFixes[k][1]}
        IN IF hit = {} THEN sql[i] ELSE ColumnFixes[Min(hit)][2]]

_fix_column_names(sql) ==
    Then(Then(Then(FixColumns(sql),
        \* (\w+)\.id\b -> \1.gid
        LAMBDA v : ReSub(<<One(Word), One(CS({"."})), Kw("id")>>,
                         LAMBDA m : <<m[1], ".", "gid">>, v)),
        \* \bSELECT\s+id\s*, -> SELECT gid,
        LAMBDA v : ReSub(<<Kw("select"), Plus(Space), Kw("id"), Star(Space),
                           One(CS({","}))>>,
                         LAMBDA m : <<"SELECT", " ", "gid", ",">>, v)),
        \* ,\s*id\s+FROM -> , gid FROM
        LAMBDA v : ReSub(<<One(CS({","})), Star(Space), Kw("id"), Plus(Space),
                           Kw("from")>>,
                         LAMBDA m : <<",", " ", "gid", " ", "FROM">>, v))

\* What an operation yields when the Python code raises.
Raised == <<"<exception>">>

\* F(x) unless x is an exception, which propagates.
ThenOk(x, F(_)) ==
    CHOOSE y \in {IF v = Raised THEN Raised ELSE F(v) : v \in {x}} : TRUE

\* The first position >= p of s that holds no whitespace (Len(s) + 1 if none).
SkipWS(s, p) == Min({j \in p..Len(s) : s[j] \notin WS} \cup {Len(s) + 1})

\* The first position of token tok in s.
IndexOf(s, tok) == Min({j \in 1..Len(s) : s[j] = tok})

\* The text of the group (\w+\.)? that ends before position p: "a." or "".
AliasBefore(s, p) ==
    IF p > 2 /\ s[p - 1] = "." /\ IsWord(s[p - 2]) THEN <<s[p - 2], ".">> ELSE <<>>

\* The text of the group (\w+\.)? that starts at position p.
AliasAt(s, p) ==
    IF p + 1 <= Len(s) /\ s[p + 1] = "." THEN <<s[p], ".">> ELSE <<>>

spatial_ops ==
    <<"ST_Intersects", "ST_DWithin", "ST_Within", "ST_Contains", "ST_Crosses">>

OptAlias == Opt(<<Word, CS({"."})>>)

\* {op}\s*\(\s*(\w+\.)?geom\s*,\s*(\w+\.)?geom
BothBare(op) ==
    <<Kw(Lower(op)), Star(Space), One(CS({"("})), Star(Space), OptAlias,
      Kw("geom"), Star(Space), One(CS({","})), Star(Space), OptAlias, Kw("geom")>>

fix_both(op, m) ==
    LET a1 == AliasAt(m, SkipWS(m, IndexOf(m, "(") + 1))
        a2 == AliasBefore(m, Len(m))
    IN <<op, "(">> \o SetSRID(a1 \o <<"geom">>) \o <<",", " ">>
       \o SetSRID(a2 \o <<"geom">>)

\* {op}\s*\(\s*ST_SetSRID\s*\([^)]+\)\s*,\s*(\w+\.)?geom\b
FirstWrapped(op) ==
    <<Kw(Lower(op)), Star(Space), One(CS({"("})), Star(Space), Kw("st_setsrid"),
      Star(Space), One(CS({"("})), Plus(Not({")"})), One(CS({")"})),
      Star(Space), One(CS({","})), Star(Space), OptAlias, Kw("geom")>>

\* ST_SetSRID\([^)]+\), searched without re.IGNORECASE
WrappedArg ==
    <<One(CS({"ST_SetSRID"})), One(CS({"("})), Plus(Not({")"})), One(CS({")"}))>>

fix_second(op, m) ==
    LET first_arg == Slice(m, ReSearch(WrappedArg, m))
    IN <<op, "(">> \o first_arg \o <<",", " ">>
       \o SetSRID(AliasBefore(m, Len(m)) \o <<"geom">>)

\* The second re.sub of one operator: fix_second raises AttributeError when
\* the case-sensitive search finds nothing in a match (None.group).
FixSecond(op, sql) ==
    IF \E k \in 1..Len(FindAll(FirstWrapped(op), sql)) :
           ReSearch(WrappedArg, Slice(sql, FindAll(FirstWrapped(op), sql)[k])) = <<>>
    THEN Raised
    ELSE ReSub(FirstWrapped(op), LAMBDA m : fix_second(op, m), sql)

RECURSIVE FixSpatialFrom(_, _)
FixSpatialFrom(sql, k) ==
    IF k > Len(spatial_ops) THEN sql
    ELSE ThenOk(ThenOk(ReSub(BothBare(spatial_ops[k]),
                             LAMBDA m : fix_both(spatial_ops[k], m), sql),
                       LAMBDA v : FixSecond(spatial_ops[k], v)),
                LAMBDA v : FixSpatialFrom(v, k + 1))

_fix_spatial_operations(sql) == FixSpatialFrom(sql, 1)

point_tables == <<"mods", "borholes", "surface_samples">>

tables_needing_geojson == <<"geology_master", "geology_faults_contacts_master">>

\* f'from {t}' in sql_lower or f'join {t}' in sql_lower
InFromOrJoin(sql, table) ==
    Contains(sql, <<"from", " ", table>>) \/ Contains(sql, <<"join", " ", table>>)

\* ,?\s*<fn>\s*\([^)]+\)\s*AS\s+<alias>
ExtractionExpr(fn, alias) ==
    <<Opt(<<CS({","})>>), Star(Space), Kw(fn), Star(Space), One(CS({"("})),
      Plus(Not({")"})), One(CS({")"})), Star(Space), Kw("as"), Plus(Space),
      Kw(alias)>>

\* The four re.sub calls that drop the latitude/longitude columns.
RemoveLatLon(sql) ==
    Then(Then(Then(ReSub(ExtractionExpr("st_y", "latitude"), LAMBDA m : <<>>, sql),
        LAMBDA v : ReSub(ExtractionExpr("st_x", "longitude"), LAMBDA m : <<>>, v)),
        \* ,\s*, -> ,
        LAMBDA v : ReSub(<<One(CS({","})), Star(Space), One(CS({","}))>>,
                         LAMBDA m : <<",">>, v)),
        \* SELECT\s*, -> 'SELECT '
        LAMBDA v : ReSub(<<Kw("select"), Star(Space), One(CS({","}))>>,
                         LAMBDA m : <<"SELECT", " ">>, v))

\* The block under "Add geojson_geom if not present", once its guard on
\* sql_upper passed.
AddGeoJson(sql, table) ==
    LET from_match == ReSearch(<<Kw("from"), Plus(Space), Kw(table)>>, sql)
        stripped == Strip(sql)
    IN IF from_match # <<>> /\ stripped # <<>> /\ Lower(stripped[1]) = "select"
       THEN LET from_pos == from_match[1]
                before_from == RStrip(RStrip(SubSeq(sql, 1, from_pos - 1), WS), {","})
                after_from == SubSeq(sql, from_pos, Len(sql))
                alias_match == ReSearch(<<Kw("from"), Plus(Space), Kw(table),
                                          Plus(Space), One(Word)>>, sql)
                geom_ref == IF alias_match # <<>>
                            THEN <<sql[alias_match[2] - 1], ".", "geom">>
                            ELSE <<"geom">>
            IN before_from \o <<",", " ">> \o GeoJsonExpr(geom_ref) \o <<" ">>
               \o after_from
       ELSE sql

\* One iteration of the loop over tables_needing_geojson: sql is the
\* statement so far, entry the statement _ensure_geojson_geom was called with
\* (sql_lower, sql_upper and is_point_table_in_query are computed from it once).
EnsureFor(table, sql, entry) ==
    IF ~InFromOrJoin(entry, table) THEN sql
    ELSE LET is_point_table_in_query ==
                 \E k \in 1..Len(point_tables) : InFromOrJoin(entry, point_tables[k])
             has_xy == Contains(entry, <<"st_y", "(">>) \/ Contains(entry, <<"st_x", "(">>)
         IN Then(IF ~is_point_table_in_query /\ has_xy THEN RemoveLatLon(sql) ELSE sql,
                 LAMBDA v : IF ~Contains(entry, <<"geojson_geom">>)
                            THEN AddGeoJson(v, table) ELSE v)

_ensure_geojson_geom(sql) ==
    Then(EnsureFor(tables_needing_geojson[1], sql, sql),
         LAMBDA v : EnsureFor(tables_needing_geojson[2], v, sql))

\* The quoted literals of the alphabet, for the back-reference \1.
CommodityLiterals == <<"'gold'", "'copper'">>

\* major_comm\s+ILIKE\s+('[^']+')\s+AND\s+minor_comm\s+ILIKE\s+\1 with the
\* group bound to lit.
SameLiteralAnd(lit) ==
    <<Kw("major_comm"), Plus(Space), Kw("ilike"), Plus(Space), Kw(Lower(lit)),
      Plus(Space), Kw("and"), Plus(Space), Kw("minor_comm"), Plus(Space),
      Kw("ilike"), Plus(Space), Kw(Lower(lit))>>

replace_with_or(m) ==
    LET val == m[SkipWS(m, SkipWS(m, 2) + 1)]
    IN <<"(", "major_comm", " ", "ILIKE", " ", val, " ", "OR", " ", "minor_comm",
         " ", "ILIKE", " ", val, ")">>

RECURSIVE FixCommodityFrom(_, _)
\* pattern.sub: a match binds \1 to one literal; matches for different
\* literals never overlap, so they are substituted literal by literal.
FixCommodityFrom(sql, k) ==
    IF k > Len(CommodityLiterals) THEN sql
    ELSE Then(ReSub(SameLiteralAnd(CommodityLiterals[k]), replace_with_or, sql),
              LAMBDA v : FixCommodityFrom(v, k + 1))

_fix_commodity_logic(sql) == FixCommodityFrom(sql, 1)

\* Steps 7b: ' JOIN ' in sql.upper() and 'DISTINCT' not in sql.upper().
AddDistinct(sql) ==
    IF Contains(sql, <<" ", "join", " ">>) /\ ~Contains(sql, <<"distinct">>)
    THEN ReSubN(<<Kw("select")>>, LAMBDA m : <<"SELECT", " ", "DISTINCT">>, sql, 1)
    ELSE sql

\* re.sub(r'\bboreholes\b', 'borholes', sql, flags=re.IGNORECASE)
FixBoreholes(s) == ReSub(<<Kw("boreholes")>>, LAMBDA m : <<"borholes">>, s)

_fix_sql(sql) ==
    ThenOk(ThenOk(ThenOk(ThenOk(ThenOk(ThenOk(ThenOk(
        _fix_select_star(sql),
        _fix_table_names),
        _fix_column_names),
        _fix_spatial_operations),
        _ensure_geojson_geom),
        FixBoreholes),
        _fix_commodity_logic),
        AddDistinct)

\* ------------------------------------------------- the classifier

\* st_asgeojson\s*\([^)]*<alias>\.geom, searched in sql_lower
GeoJsonFrom(alias) ==
    <<Kw("st_asgeojson"), Star(Space), One(CS({"("})), Star(Not({")"})),
      Kw(alias), One(CS({"."})), Kw("geom")>>

\* The classifier with the point-table rule tried before the geojson_geom
\* rule.
PointTableBeforeGeoJson(sql, suggested_type) ==
    LET is_faults_query == InFromOrJoin(sql, "geology_faults_contacts_master")
        is_geology_query == InFromOrJoin(sql, "geology_master")
    IN CASE Contains(sql, <<" ", "as", " ", "latitude">>)
            /\ Contains(sql, <<" ", "as", " ", "longitude">>) -> "point"
         [] is_faults_query /\ ~is_geology_query -> "line"
         [] is_geology_query /\ ~is_faults_query -> "polygon"
         [] \E k \in 1..Len(point_tables) :
                Contains(sql, <<"from", " ", point_tables[k]>>) -> "point"
         [] ~Contains(sql, <<"geojson_geom">>) -> suggested_type
         [] ReSearch(GeoJsonFrom("f"), sql) # <<>> -> "line"
         [] ReSearch(GeoJsonFrom("g"), sql) # <<>> -> "polygon"
         [] suggested_type \in {"line", "polygon"} -> suggested_type
         [] OTHER -> "polygon"

_determine_query_type(sql, suggested_type) ==
    LET is_faults_query == InFromOrJoin(sql, "geology_faults_contacts_master")
        is_geology_query == InFromOrJoin(sql, "geology_master")
    IN CASE Contains(sql, <<" ", "as", " ", "latitude">>)
            /\ Contains(sql, <<" ", "as", " ", "longitude">>) -> "point"
         [] OTHER ->
       CASE is_faults_query /\ ~is_geology_query -> "line"
         [] is_geology_query /\ ~is_faults_query -> "polygon"
         [] OTHER ->
       IF Contains(sql, <<"geojson_geom">>)
       THEN CASE ReSearch(GeoJsonFrom("f"), sql) # <<>> -> "line"
              [] ReSearch(GeoJsonFrom("g"), sql) # <<>> -> "polygon"
              [] suggested_type \in {"line", "polygon"} -> suggested_type
              [] OTHER -> "polygon"
       ELSE IF \E k \in 1..Len(point_tables) :
                   Contains(sql, <<"from", " ", point_tables[k]>>)
            THEN "point"
            ELSE suggested_type

\* ------------------------------------------------- limit extraction

MaxCount == 2

\* The number words of a query: str(n) for the counts 0..MaxCount.
Digits == {ToString(n) : n \in 0..MaxCount}

\* int(text)
ParseInt(tok) == CHOOSE n \in 0..MaxCount : ToString(n) = tok

Num == One(CS(Digits))

\* patterns of _extract_limit_from_query, in order; g is the place of
\* group 1 in the match ("last" or "first" token).
LimitPatterns ==
    << [p |-> <<Kw("top"), Plus(Space), Num>>, g |-> "last"],
       [p |-> <<Kw("first"), Plus(Space), Num>>, g |-> "last"],
       [p |-> <<Kw("give"), Plus(Space), Kw("me"), Plus(Space), Num>>, g |-> "last"],
       [p |-> <<Kw("show"), Plus(Space), Num>>, g |-> "last"],
       [p |-> <<Kw("get"), Plus(Space), Num>>, g |-> "last"],
       [p |-> <<Kw("nearest"), Plus(Space), Num>>, g |-> "last"],
       [p |-> <<Num, Plus(Space), One(CI({"nearest", "closest", "top", "first"}))>>,
        g |-> "first"],
       [p |-> <<Kw("limit"), Plus(Space), Opt(<<CI({"to"})>>), Star(Space), Num>>,
        g |-> "last"] >>

\* Optional[int]: None is NoLimit.
NoLimit == -1

_extract_limit_from_query(query) ==
    LET hits == {k \in 1..Len(LimitPatterns) : ReSearch(LimitPatterns[k].p, query) # <<>>}
    IN IF hits = {} THEN NoLimit
       ELSE LET k == Min(hits)
                m == Slice(query, ReSearch(LimitPatterns[k].p, query))
            IN ParseInt(IF LimitPatterns[k].g = "last" THEN m[Len(m)] ELSE m[1])

\* ------------------------------------------------- the query hints

\* The characters of a text: the concatenation of its tokens.
RECURSIVE Join(_)
Join(s) == IF s = <<>> THEN "" ELSE s[1] \o Join(Tail(s))

\* needle in text, on characters
In(needle, text) ==
    \E i \in 1..(Len(text) - Len(needle) + 1) :
        SubSeq(text, i, i + Len(needle) - 1) = needle

\* query.lower()
LowerText(query) == Join([i \in 1..Len(query) |-> Lower(query[i])])

\* SAUDI_REGIONS, in its insertion order.
SAUDI_REGIONS ==
    << <<"riyadh", "Riyadh Region">>, <<"makkah", "Makkah Region">>,
       <<"mecca", "Makkah Region">>, <<"madinah", "Madinah Region">>,
       <<"medina", "Madinah Region">>, <<"eastern", "Eastern Region">>,
       <<"asir", "Asir Region">>, <<"tabuk", "Tabuk Region">>,
       <<"hail", "Hail Region">>, <<"jazan", "Jazan Region">>,
       <<"najran", "Najran Region">>, <<"qassim", "Qassim Region">> >>

commodities == {"gold", "copper", "silver", "zinc", "iron", "lead", "nickel"}

mine_words == {"mines", "deposits", "sites", "occurrences"}

\* f"REGION: {city} -> {region}" (the arrow of the source is written ->)
RegionHint(entry) == <<"REGION: ", entry[1], " -> ", entry[2]>>

SemanticHint ==
    <<"SEMANTIC: 'mines/deposits' without commodity -> NO commodity filter">>

\* The hints list for the lower-cased query.
RECURSIVE RegionHints(_, _)
RegionHints(query_lower, k) ==
    IF k > Len(SAUDI_REGIONS) THEN <<>>
    ELSE (IF In(SAUDI_REGIONS[k][1], query_lower) /\ ~In("region", query_lower)
          THEN <<RegionHint(SAUDI_REGIONS[k])>> ELSE <<>>)
         \o RegionHints(query_lower, k + 1)

Hints(query_lower) ==
    RegionHints(query_lower, 1)
    \o (IF (\E w \in mine_words : In(w, query_lower))
            /\ ~(\E c \in commodities : In(c, query_lower))
         THEN <<SemanticHint>> ELSE <<>>)

\* " | ".join(hints)
RECURSIVE JoinHints(_)
JoinHints(hints) ==
    IF Len(hints) = 1 THEN hints[1]
    ELSE hints[1] \o <<" | ">> \o JoinHints(Tail(hints))

Annotated(query, hints) ==
    IF hints # <<>> THEN query \o <<" [">> \o JoinHints(hints) \o <<"]">>
    ELSE query

_preprocess_query(query) == Annotated(query, Hints(LowerText(query)))

\* ------------------------------------------------- the generation client

\* OllamaClient.generate_json of backend/llm/ollama_client.py.  The text of
\* a completion is a sequence of tokens as above: a fence, a brace, a
\* bracket, a comma, a colon, one whitespace character, a JSON string or a
\* word of prose.  The backquote of a fence is written ~ here.

\* The JSON strings of the alphabet.
JsonStrings ==
    {"\"sql_query\"", "\"query_type\"", "\"meta\"", "\"point\"",
     "\"SELECT gid FROM mods\""}

\* The token at position i, or the empty text past the end.
At(s, i) == IF i \in 1..Len(s) THEN s[i] ELSE ""

\* The position after the JSON value that starts at position i, 0 if there
\* is none (json.JSONDecodeError).
RECURSIVE ValueEnd(_, _)
RECURSIVE MembersEnd(_, _)
RECURSIVE ItemsEnd(_, _)
AfterMember(s, e) ==
    IF e = 0 THEN 0
    ELSE CASE At(s, e) = "," -> MembersEnd(s, SkipWS(s, e + 1))
           [] At(s, e) = "}" -> e + 1
           [] OTHER -> 0

AfterItem(s, e) ==
    IF e = 0 THEN 0
    ELSE CASE At(s, e) = "," -> ItemsEnd(s, SkipWS(s, e + 1))
           [] At(s, e) = "]" -> e + 1
           [] OTHER -> 0

AfterKey(s, c) ==
    IF At(s, c) = ":"
    THEN Then(ValueEnd(s, SkipWS(s, c + 1)),
              LAMBDA e : AfterMember(s, IF e = 0 THEN 0 ELSE SkipWS(s, e)))
    ELSE 0

MembersEnd(s, i) ==
    IF At(s, i) \in JsonStrings THEN AfterKey(s, SkipWS(s, i + 1)) ELSE 0

ItemsEnd(s, i) ==
    Then(ValueEnd(s, i), LAMBDA e : AfterItem(s, IF e = 0 THEN 0 ELSE SkipWS(s, e)))

Opened(s, c, close, inside) ==
    IF At(s, c) = close THEN c + 1
    ELSE IF inside = "members" THEN MembersEnd(s, c) ELSE ItemsEnd(s, c)

ValueEnd(s, i) ==
    CASE At(s, i) \in JsonStrings -> i + 1
      [] At(s, i) = "{" -> Opened(s, SkipWS(s, i + 1), "}", "members")
      [] At(s, i) = "[" -> Opened(s, SkipWS(s, i + 1), "]", "items")
      [] OTHER -> 0

\* What json.loads does not read: no text is a JSON value.
NotJson == <<"<JSONDecodeError>">>

\* The value read: the tokens of the text without the whitespace between
\* them.
Value(s) == SelectSeq(s, LAMBDA tok : tok \notin WS)

WholeValue(s, e) == IF e # 0 /\ SkipWS(s, e) > Len(s) THEN Value(s) ELSE NotJson

\* json.loads(response)
json_loads(s) == WholeValue(s, ValueEnd(s, SkipWS(s, 1)))

\* The first position >= i that holds one of the tokens (Len(s) + 1 if none).
Find(s, toks, i) == Min({j \in i..Len(s) : s[j] \in toks} \cup {Len(s) + 1})

\* The last position that holds the token (0 if none).
RFind(s, tok) ==
    IF \E j \in 1..Len(s) : s[j] = tok
    THEN CHOOSE j \in 1..Len(s) : s[j] = tok /\ \A h \in (j + 1)..Len(s) : s[h] # tok
    ELSE 0

\* response[start:end].strip() if end > start, for the fence "~~~json"
\* before position start and the next "~~~" at position end.
Fenced(s, start, end) ==
    IF end <= Len(s) /\ end > start THEN Strip(SubSeq(s, start, end - 1)) ELSE s

DropLastFence(s) ==
    IF s # <<>> /\ s[Len(s)] = "~~~" THEN SubSeq(s, 1, Len(s) - 1) ELSE s

\* "Remove markdown code blocks if present"
StripFences(s) ==
    IF \E j \in 1..Len(s) : s[j] = "~~~json"
    THEN Fenced(s, Find(s, {"~~~json"}, 1) + 1,
                Find(s, {"~~~", "~~~json"}, Find(s, {"~~~json"}, 1) + 1))
    ELSE IF At(s, 1) = "~~~"
    THEN Strip(DropLastFence(Tail(s)))
    ELSE s

Between(s, first_brace, last_brace) ==
    IF first_brace <= Len(s) /\ last_brace > first_brace
    THEN SubSeq(s, first_brace, last_brace) ELSE s

\* "Look for first { and last }", then response.strip()
SliceBraces(s) == Strip(Between(s, Find(s, {"{"}, 1), RFind(s, "}")))

\* re.sub(r',\s*}', '}', response), then re.sub(r',\s*]', ']', response)
RemoveTrailingCommas(s) ==
    ReSub(<<One(CS({","})), Star(Space), One(CS({"]"}))>>, LAMBDA m : <<"]">>,
          ReSub(<<One(CS({","})), Star(Space), One(CS({"}"}))>>,
                LAMBDA m : <<"}">>, s))

\* The end of a match of [^{}]*(?:\{[^{}]*\}[^{}]*)*\} from position j, 0
\* if there is none.
RECURSIVE NestedEnd(_, _)
InnerEnd(s, c) == IF At(s, c) = "}" THEN NestedEnd(s, c + 1) ELSE 0

AtBrace(s, b) ==
    CASE At(s, b) = "}" -> b + 1
      [] At(s, b) = "{" -> InnerEnd(s, Find(s, {"{", "}"}, b + 1))
      [] OTHER -> 0

NestedEnd(s, j) == AtBrace(s, Find(s, {"{", "}"}, j))

\* regex_module.search(r'\{[^{}]*(?:\{[^{}]*\}[^{}]*)*\}', response): the
\* text of the first match, <<>> if there is none.
FirstNested(s, starts) ==
    IF starts = {} THEN <<>>
    ELSE SubSeq(s, Min(starts), NestedEnd(s, Min(starts) + 1) - 1)

json_match(s) ==
    FirstNested(s, {i \in 1..Len(s) : s[i] = "{" /\ NestedEnd(s, i + 1) # 0})

\* response[:n]
RECURSIVE FirstChars(_, _)
FirstChars(s, n) ==
    IF s = <<>> \/ n <= 0 THEN <<>>
    ELSE IF Len(s[1]) > n THEN <<SubSeq(s[1], 1, n)>>
    ELSE <<s[1]>> \o FirstChars(Tail(s), n - Len(s[1]))

\* How many characters of the text the error message carries.
ErrorChars == 200

\* How many characters of the text the log line carries.
LoggedChars == 500

\* An error message that carries as much of the text as the log line.
MalformedResponseAsLogged(response) ==
    <<"LLM did not return valid JSON. Response: ">>
    \o FirstChars(response, LoggedChars) \o <<"...">>

\* f"LLM did not return valid JSON. Response: {response[:200]}..."
MalformedResponse(response) ==
    <<"LLM did not return valid JSON. Response: ">>
    \o FirstChars(response, ErrorChars) \o <<"...">>

\* ------------------------------------------------- the collaborators

Text(s) == <<s>>

\* What the generation service can answer to one generate_json call: a
\* transport failure raised by OllamaClient.generate, or a JSON object.  The
\* object's description, tables_used and reasoning are copied through
\* unread and are left out.
Absent == "<absent>"

TransportErrors ==
    { <<"LLM request timed out after ", "ollama_timeout", " seconds">>,
      <<"LLM server error: ", "status_code">> }

RawOutputs ==
    << <<"SELECT", " ", "*", " ", "FROM", " ", "mods">>,
       <<"DROP", " ", "TABLE", " ", "mods">>,
       <<"SELECT", " ", "gid", " ", "FROM", " ", "mods", ";", " ",
         "DROP", " ", "TABLE", " ", "mods">>,
       <<"SELECT", " ", "gid", " ", "FROM", " ", "mods", " ", "m", " ",
         "JOIN", " ", "geology_master", " ", "g", " ", "ON", " ",
         "st_within", "(", "st_setsrid", "(", "m", ".", "geom", ",", " ",
         "3857", ")", ",", " ", "g", ".", "geom", ")">>,
       <<>> >>

Failure(e) ==
    [kind |-> "error", error |-> e, has_sql |-> FALSE, raw |-> 0, query_type |-> Absent]

Object(has, k, ty) ==
    [kind |-> "object", error |-> <<>>, has_sql |-> has, raw |-> k, query_type |-> ty]

Responses ==
    {Failure(e) : e \in TransportErrors}
    \cup {Object(FALSE, 0, "point")}
    \cup {Object(TRUE, 1, Absent), Object(TRUE, 2, "region"),
          Object(TRUE, 3, "line"), Object(TRUE, 4, "polygon"),
          Object(TRUE, 5, "point"), Object(TRUE, 0, "point")}

\* _fix_sql of each output the service can give.
Repaired == [k \in 1..Len(RawOutputs) |-> Then(RawOutputs[k], _fix_sql)]

\* str(e) of the AttributeError of a failed re.search(...).group()
AttributeErrorText == Text("'NoneType' object has no attribute 'group'")

\* str(e) of the TypeError of re.search on a sql_query that is null
TypeErrorText == Text("expected string or bytes-like object, got 'NoneType'")

\* What the database can answer to the dry run or to the execution.
DbErrors == {Text("syntax error at or near")}

\* validate_query of the storage collaborator: a read-only check (no
\* mutation keyword, one statement, a SELECT).
MutationKeywords ==
    {"drop", "delete", "insert", "update", "alter", "truncate", "create"}

validate_query(sql) ==
    LET s == Strip(sql)
        mutates == \E i \in 1..Len(s) : Lower(s[i]) \in MutationKeywords
        many == \E i \in 1..Len(s) : s[i] = ";" /\ \E j \in (i + 1)..Len(s) : s[j] \notin WS
        shaped == Len(s) > 0 /\ Lower(s[1]) = "select"
    IN CASE mutates -> [ok |-> FALSE, reason |-> Text("mutation keyword")]
         [] many -> [ok |-> FALSE, reason |-> Text("multiple statements")]
         [] ~shaped -> [ok |-> FALSE, reason |-> Text("not a SELECT")]
         [] OTHER -> [ok |-> TRUE, reason |-> <<>>]

\* ------------------------------------------------- generation

\* result is unbound until the first generation call returns.
Unset == [sql_query |-> <<>>, query_type |-> "<unbound>"]

Raise(e, f) == [ok |-> FALSE, error |-> e, fault |-> f, result |-> Unset]

Return(r) == [ok |-> TRUE, error |-> <<>>, fault |-> "none", result |-> r]

\* result.get("query_type", "point")
SuggestedType(r) == IF r.query_type = Absent THEN "point" ELSE r.query_type

\* The result built from the repaired statement, unless the repair raised.
Classified(repaired, suggested_type) ==
    IF repaired = Raised THEN Raise(AttributeErrorText, "repair")
    ELSE Return([sql_query |-> repaired,
                 query_type |-> _determine_query_type(repaired, suggested_type)])

\* The body shared by generate_sql and _regenerate_with_feedback: the call
\* of the service, the sql_query check, the repair and the classification.
Produce(r, missing) ==
    CASE r.kind = "error" -> Raise(r.error, "transport")
      [] ~r.has_sql -> Raise(missing, "content")
      [] r.raw \notin DOMAIN RawOutputs -> Raise(TypeErrorText, "repair")
      [] OTHER -> Classified(Repaired[r.raw], SuggestedType(r))

\* except Exception as e: raise ValueError(f"Failed to generate SQL: {e}")
Wrapped(g) ==
    IF g.ok THEN g ELSE Raise(Text("Failed to generate SQL: ") \o g.error, g.fault)

\* generate_sql wraps whatever is raised in its try block.
generate_sql(r) == Wrapped(Produce(r, Text("No sql_query in response")))

_regenerate_with_feedback(r) ==
    Produce(r, Text("No sql_query in regenerated response"))

\* ------------------------------------------------- the prompts

\* f'Generate SQL for: "{processed_query}"'
GenerationPrompt(query) ==
    <<"Generate SQL for: \"">> \o _preprocess_query(query) \o <<"\"">>

\* f"Attempt {i+1}: {h['sql']}\nError: {h['error']}"
FailureText(n, h) ==
    <<"Attempt ", ToString(n), ": ">> \o h.sql \o <<"\nError: ">> \o h.error

\* An error_text of the latest failure alone.
LatestFailure(history) ==
    IF history = <<>> THEN <<>>
    ELSE FailureText(Len(history), history[Len(history)])

\* "\n".join([... for i, h in enumerate(history)])
RECURSIVE error_text(_)
error_text(history) ==
    IF history = <<>> THEN <<>>
    ELSE IF Len(history) = 1 THEN FailureText(1, history[1])
    ELSE error_text(SubSeq(history, 1, Len(history) - 1))
         \o <<"\n">> \o FailureText(Len(history), history[Len(history)])

\* The fixed tail of the retry prompt.
RetryAdvice ==
    <<"\n\nFix ALL errors. Common issues:\n- Wrong table/column names\n- Missing ST_SetSRID on geometries  \n- SELECT * (list columns explicitly)\n- Missing geojson_geom for polygon/line\n- AND instead of OR for commodity search\n\nGenerate corrected SQL.">>

\* retry_prompt of _regenerate_with_feedback
retry_prompt(query, history) ==
    <<"Original: \"">> \o query
    \o <<"\"\n\nPREVIOUS FAILURES:\n">> \o error_text(history) \o RetryAdvice

\* ------------------------------------------------- the retry controller

\* max_retries: int = 4
DefaultMaxRetries == 4

\* The largest max_retries of a direct call of generate_sql_with_retry.
MaxRetriesArg == 2

\* A loop that admits one pass more: while attempt <= max_retries.
LoopGuardInclusive(attempt, max_retries) == attempt <= max_retries

\* while attempt < max_retries
LoopGuard(attempt, max_retries) == attempt < max_retries

\* f"EXPLAIN {result['sql_query']}"
explain_query(result) == <<"EXPLAIN", " ">> \o result.sql_query

\* A return that counts the failures instead of the attempts.
AcceptedByHistory(result, attempt, attempt_history) ==
    [sql_query |-> result.sql_query, query_type |-> result.query_type,
     attempts |-> Len(attempt_history), failed_attempts |-> attempt_history]

\* {**result, "attempts": attempt, "failed_attempts": attempt_history}
Accepted(result, attempt, attempt_history) ==
    [sql_query |-> result.sql_query, query_type |-> result.query_type,
     attempts |-> attempt, failed_attempts |-> attempt_history]

\* What generate_sql returns to execute: the result, no attempt metadata.
Single(result) ==
    [sql_query |-> result.sql_query, query_type |-> result.query_type,
     attempts |-> 0, failed_attempts |-> <<>>]

NoGen == [sql_query |-> <<>>, query_type |-> "<none>", attempts |-> 0,
          failed_attempts |-> <<>>]

\* The entry appended in the except branch; result is the last value bound
\* in this call, if any.
HistoryEntry(result, error_msg) ==
    [sql |-> IF result # Unset THEN result.sql_query ELSE Text("N/A"),
     error |-> error_msg]

\* An exhaustion test that is late by one: if attempt > max_retries.
ExhaustedLate(attempt, max_retries) == attempt > max_retries

\* if attempt >= max_retries
Exhausted(attempt, max_retries) == attempt >= max_retries

\* A terminal message without the error: f"Failed after {max_retries} attempts".
TerminalErrorBare(max_retries, error_msg) ==
    <<"Failed after ", ToString(max_retries), " attempts">>

\* f"Failed after {max_retries} attempts. Last error: {error_msg}"
TerminalError(max_retries, error_msg) ==
    <<"Failed after ", ToString(max_retries), " attempts. Last error: ">> \o error_msg

\* f"Failed to generate valid SQL after {max_retries} attempts"
FellThrough(max_retries) ==
    <<"Failed to generate valid SQL after ", ToString(max_retries), " attempts">>

\* ------------------------------------------------- execute

\* effective_limit = user_limit if user_limit else 10_000_000
UnboundedCap == 10000000

\* Python's truth value of an Optional[int]
Truthy(user_limit) == user_limit # NoLimit /\ user_limit # 0

effective_limit(user_limit) == IF Truthy(user_limit) THEN user_limit ELSE UnboundedCap

\* A gate that lets every statement through.
NeverRejects(is_valid) == FALSE

\* if not is_valid
Rejects(is_valid) == ~is_valid

NoOutcome ==
    [kind |-> "none", success |-> FALSE, error |-> <<>>, sql_query |-> <<>>,
     query_type |-> "", was_truncated |-> FALSE, natural_query |-> <<>>]

\* An exception that leaves the entry point.
Raises(e) == [NoOutcome EXCEPT !.kind = "raised", !.error = e]

\* A failure dictionary that forgets the statement.
FailedWithoutSql(e, sql, query) ==
    [NoOutcome EXCEPT !.kind = "returned", !.error = e, !.natural_query = query]

\* The failure dictionary of execute.
Failed(e, sql, query) ==
    [NoOutcome EXCEPT !.kind = "returned", !.error = e, !.sql_query = sql,
                      !.natural_query = query]

\* The success dictionary of execute; data and row_count are the gateway's
\* rows and are left out.
Succeeded(gen, truncated, user_limit, query) ==
    [kind |-> "returned", success |-> TRUE, error |-> <<>>,
     sql_query |-> gen.sql_query, query_type |-> gen.query_type,
     was_truncated |-> IF Truthy(user_limit) THEN truncated ELSE FALSE,
     natural_query |-> query]

\* What generate_sql_with_retry hands to a direct caller.
Handed(gen) ==
    [NoOutcome EXCEPT !.kind = "returned", !.success = TRUE,
                      !.sql_query = gen.sql_query, !.query_type = gen.query_type]

\* The natural-language requests.
Queries ==
    {<<"show", " ", "mines">>, <<"show", " ", "0", " ", "top", " ", ToString(MaxCount)>>}
    \cup {<<"top", " ", ToString(n), " ", "mines">> : n \in 0..MaxCount}
    \cup {<<"Show", " ", ToString(n), " ", "mines">> : n \in 0..MaxCount}
    \cup {<<ToString(n), " ", "closest", " ", "mines">> : n \in 0..MaxCount}
    \cup {<<"show", " ", "leading", " ", "mines">>,
          <<"mines", " ", "in", " ", "Riyadh">>,
          <<"mines", " ", "in", " ", "riyadh", " ", "region">>,
          <<"show", " ", "faults">>}

\* What the HTTP layer puts in a request: QueryRequest.max_results is
\* Optional[int] with default None (NoLimit stands for None).
MaxResults == {NoLimit, 0, 1}

\* The requests sent through the HTTP layer.
HttpQueries == {<<"show", " ", "mines">>, <<"top", " ", "1", " ", "mines">>}

\* The callers of execute: one that leaves use_retry to its default or names
\* it, _handle_sql_query, which passes request.max_results in its place, and
\* export_data, which passes None.
Callers == {"direct", "_handle_sql_query", "export_data"}

\* ------------------------------------------------- the state

VARIABLES
    entry,            \* the method the caller entered
    query,            \* the natural-language request
    use_retry,        \* the truth value of execute's second argument
    caller,           \* who called the entry point
    max_results,      \* the max_results of the HTTP request
    max_retries,      \* generate_sql_with_retry's second argument
    pc,               \* where the request stands
    attempt,          \* generate_sql_with_retry's counter
    attempt_history,  \* generate_sql_with_retry's list of failed attempts
    result,           \* generate_sql_with_retry's local result
    gen_result,       \* what the generation handed back
    outcome,          \* what the caller of the entry point gets
    calls,            \* every call made to a collaborator, in order
    sql,              \* the text under repair
    fixed,            \* its successive repairs
    suggested_type,   \* the query_type suggested for the repaired text
    raw,              \* the completion generate returned to generate_json
    response,         \* generate_json's local response
    client_pc,        \* where generate_json stands
    reply,            \* what generate_json hands to its caller
    requests,         \* the calls of generate made by generate_json
    _column_values,   \* SQLGenerator._column_values
    _reverse_mapping, \* SQLGenerator._reverse_mapping
    loader,           \* where a rebuild of the catalog stands
    seen,             \* what a reader of the catalog last saw
    frames,           \* the locals of the requests running interleaved
    replies,          \* what the collaborators answered to each of them
    analysis_pending, \* SpatialAnalysisAgent.analysis_pending
    last_query_type,  \* SpatialAnalysisAgent.last_query_type
    last_query_data,  \* SpatialAnalysisAgent.last_query_data
    last_query_result,\* GeospatialOrchestrator.last_query_result
    shown,            \* the numbered analyses of the last suggestion message
    answer,           \* what process returned for the last input
    turns             \* the inputs the orchestrator has processed

vars ==
    <<entry, query, use_retry, caller, max_results, max_retries, pc, attempt, attempt_history,
      result, gen_result, outcome, calls, sql, fixed, suggested_type,
      raw, response, client_pc, reply, requests,
      _column_values, _reverse_mapping, loader, seen, frames, replies,
      analysis_pending, last_query_type, last_query_data, last_query_result,
      shown, answer, turns>>

request == <<entry, query, use_retry, caller, max_results, max_retries>>

repair == <<sql, fixed, suggested_type>>

client == <<raw, response, client_pc, reply, requests>>

catalog == <<_column_values, _reverse_mapping, loader, seen>>

pair == <<frames, replies>>

session ==
    <<analysis_pending, last_query_type, last_query_data, last_query_result,
      shown, answer, turns>>

generator ==
    <<request, pc, attempt, attempt_history, result, gen_result, outcome, calls,
      repair>>

\* No catalog is being rebuilt or read.
CatalogIdle ==
    /\ _column_values = <<>>
    /\ _reverse_mapping = <<>>
    /\ loader = [pc |-> "idle", at |-> 0, refreshes |-> 0]
    /\ seen = <<>>

\* No two requests run interleaved.
PairIdle ==
    /\ frames = <<>>
    /\ replies = <<>>

NoAnswer == [kind |-> "none", analysis_key |-> "", input |-> ""]

\* The orchestrator and the analysis agent as constructed.
SessionNew ==
    /\ analysis_pending = FALSE
    /\ last_query_type = "None"
    /\ last_query_data = <<>>
    /\ last_query_result = <<>>
    /\ shown = <<>>
    /\ answer = NoAnswer
    /\ turns = 0

NoReply == [kind |-> "none", value |-> <<>>]

\* generate_json is not entered.
ClientIdle ==
    /\ raw = <<>>
    /\ response = <<>>
    /\ client_pc = "idle"
    /\ reply = NoReply
    /\ requests = 0

Call(op, text, ok, error, fault) ==
    [op |-> op, sql |-> text, ok |-> ok, error |-> error, fault |-> fault,
     max_rows |-> NoLimit, truncated |-> FALSE]

GenerationOps == {"generate_sql", "_regenerate_with_feedback"}

Init ==
    /\ entry \in {"execute", "generate_sql_with_retry"}
    /\ caller \in Callers
    /\ IF entry = "execute"
       THEN /\ CASE caller = "direct" ->
                      /\ query \in Queries
                      /\ max_results = NoLimit
                      /\ use_retry \in BOOLEAN
                   [] caller = "_handle_sql_query" ->
                      /\ query \in HttpQueries
                      /\ max_results \in MaxResults
                      /\ use_retry = Truthy(max_results)
                   [] caller = "export_data" ->
                      /\ query \in HttpQueries
                      /\ max_results = NoLimit
                      /\ use_retry = Truthy(NoLimit)
            /\ max_retries = DefaultMaxRetries
       ELSE /\ caller = "direct"
            /\ max_results = NoLimit
            /\ query = <<"show", " ", "mines">>
            /\ use_retry = TRUE
            /\ max_retries \in 0..MaxRetriesArg
    /\ pc = IF use_retry THEN "loop" ELSE "once"
    /\ attempt = 0
    /\ attempt_history = <<>>
    /\ result = Unset
    /\ gen_result = NoGen
    /\ outcome = NoOutcome
    /\ calls = <<>>
    /\ sql = <<>>
    /\ fixed = <<>>
    /\ suggested_type = Absent
    /\ ClientIdle
    /\ CatalogIdle
    /\ PairIdle
    /\ SessionNew

\* The except branch of the loop, in attempt n with the exception text e.
Except(n, e) ==
    /\ attempt_history' = Append(attempt_history, HistoryEntry(result, e))
    /\ IF Exhausted(n, max_retries)
       THEN /\ outcome' = Raises(TerminalError(max_retries, e))
            /\ pc' = "done"
       ELSE /\ outcome' = outcome
            /\ pc' = "loop"
    /\ gen_result' = gen_result

\* Attempt n: the generation call op came back as g.
Generated(n, op, prompt, g) ==
    /\ attempt' = n
    /\ calls' = Append(calls, Call(op, prompt, g.ok, g.error, g.fault))
    /\ IF g.ok
       THEN /\ result' = g.result
            /\ pc' = "explain"
            /\ UNCHANGED <<attempt_history, gen_result, outcome>>
       ELSE /\ Except(n, g.error)
            /\ result' = result

\* One pass of the loop up to the generation call's return.
Generate ==
    /\ pc = "loop"
    /\ LoopGuard(attempt, max_retries)
    /\ \E r \in Responses :
         IF attempt + 1 = 1
         THEN Generated(attempt + 1, "generate_sql", GenerationPrompt(query),
                        generate_sql(r))
         ELSE Generated(attempt + 1, "_regenerate_with_feedback",
                        retry_prompt(query, attempt_history),
                        _regenerate_with_feedback(r))
    /\ UNCHANGED <<request, repair, client, catalog, pair, session>>

\* The loop ends without a pass having returned or raised.
FallThrough ==
    /\ pc = "loop"
    /\ ~LoopGuard(attempt, max_retries)
    /\ outcome' = Raises(FellThrough(max_retries))
    /\ pc' = "done"
    /\ UNCHANGED <<request, attempt, attempt_history, result, gen_result, calls, repair, client, catalog, pair, session>>

\* The dry run of the pass and what follows it.
DryRun ==
    /\ pc = "explain"
    /\ \/ /\ calls' = Append(calls, Call("execute_query", explain_query(result),
                                         TRUE, <<>>, "none"))
          /\ gen_result' = Accepted(result, attempt, attempt_history)
          /\ IF entry = "execute"
             THEN pc' = "validate" /\ outcome' = outcome
             ELSE pc' = "done" /\ outcome' = Handed(gen_result')
          /\ attempt_history' = attempt_history
       \/ \E e \in DbErrors :
            /\ calls' = Append(calls, Call("execute_query", explain_query(result),
                                           FALSE, e, "database"))
            /\ Except(attempt, e)
    /\ UNCHANGED <<request, attempt, result, repair, client, catalog, pair, session>>

\* execute with use_retry false: one generation, no dry run.
GeneratedOnce(g) ==
    /\ calls' = Append(calls, Call("generate_sql", GenerationPrompt(query),
                                   g.ok, g.error, g.fault))
    /\ IF g.ok
       THEN gen_result' = Single(g.result) /\ pc' = "validate" /\ outcome' = outcome
       ELSE gen_result' = gen_result /\ pc' = "done" /\ outcome' = Raises(g.error)

GenerateOnce ==
    /\ pc = "once"
    /\ \E r \in Responses : GeneratedOnce(generate_sql(r))
    /\ UNCHANGED <<request, attempt, attempt_history, result, repair, client, catalog, pair, session>>

\* execute's safety check of the generated statement.
Validated(v) ==
    /\ calls' = Append(calls, Call("validate_query", gen_result.sql_query,
                                   v.ok, v.reason, "none"))
    /\ IF Rejects(v.ok)
       THEN /\ outcome' = Failed(Text("Invalid SQL: ") \o v.reason,
                                 gen_result.sql_query, query)
            /\ pc' = "done"
       ELSE /\ outcome' = outcome
            /\ pc' = "run"

Validate ==
    /\ pc = "validate"
    /\ Validated(validate_query(gen_result.sql_query))
    /\ UNCHANGED <<request, attempt, attempt_history, result, gen_result, repair, client, catalog, pair, session>>

\* execute's try block: the capped execution and the answer.
SafeCall(user_limit) ==
    [Call("execute_safe_query", gen_result.sql_query, TRUE, <<>>, "none")
        EXCEPT !.max_rows = effective_limit(user_limit)]

Executed(user_limit) ==
    \/ \E truncated \in BOOLEAN :
         /\ calls' = Append(calls, [SafeCall(user_limit) EXCEPT !.truncated = truncated])
         /\ outcome' = Succeeded(gen_result, truncated, user_limit, query)
    \/ \E e \in DbErrors :
         /\ calls' = Append(calls, [SafeCall(user_limit) EXCEPT
                                       !.ok = FALSE, !.error = e, !.fault = "database"])
         /\ outcome' = Failed(e, gen_result.sql_query, query)

Run ==
    /\ pc = "run"
    /\ Executed(_extract_limit_from_query(query))
    /\ pc' = "done"
    /\ UNCHANGED <<request, attempt, attempt_history, result, gen_result, repair, client, catalog, pair, session>>

Next ==
    \/ Generate
    \/ FallThrough
    \/ DryRun
    \/ GenerateOnce
    \/ Validate
    \/ Run

Spec == Init /\ [][Next]_vars

\* ------------------------------------------------- properties of a request

\* The positions of the log where the generation service was called.
GenerationCalls == {i \in 1..Len(calls) : calls[i].op \in GenerationOps}

IsLoopCall(c) == c.op \in GenerationOps \cup {"execute_query"}

IsFailure(c) == ~c.ok

\* The calls made inside generate_sql_with_retry's loop, and the failed ones.
LoopCalls == SelectSeq(calls, IsLoopCall)

Failures == SelectSeq(LoopCalls, IsFailure)

\* generate_sql_with_retry has returned a result.
Returned == use_retry /\ gen_result # NoGen

\* generate_sql_with_retry has raised.
GaveUp == use_retry /\ pc = "done" /\ outcome.kind = "raised"

\* needle occurs in s as a run of consecutive elements.
Infix(needle, s) ==
    \E i \in 0..(Len(s) - Len(needle)) : SubSeq(s, i + 1, i + Len(needle)) = needle

\* C1: whatever generation and dry-run failures occur, and for every
\* max_retries >= 0, generate_sql_with_retry calls the generation service at
\* most max_retries times for a request.
RetryBound == use_retry => Cardinality(GenerationCalls) <= max_retries

\* The bound is met: the default four calls were made.
RetryBoundMet ==
    /\ use_retry
    /\ max_retries = DefaultMaxRetries
    /\ Cardinality(GenerationCalls) = max_retries

\* C2: generate_sql_with_retry returns a result only from a pass whose
\* generation call was followed by a successful EXPLAIN of exactly the
\* returned sql_query; when it raises, it returns no query, max_retries
\* generation calls were made and the message carries the last error seen and
\* the attempt count (with max_retries = 0 there is no error to carry).
ReturnsOnlyDryRunProven ==
    /\ Returned =>
         /\ Len(LoopCalls) >= 2
         /\ LoopCalls[Len(LoopCalls)] =
                Call("execute_query", <<"EXPLAIN", " ">> \o gen_result.sql_query,
                     TRUE, <<>>, "none")
         /\ LoopCalls[Len(LoopCalls) - 1].op \in GenerationOps
         /\ LoopCalls[Len(LoopCalls) - 1].ok
         /\ outcome.kind # "raised"
    /\ GaveUp =>
         /\ gen_result = NoGen
         /\ Cardinality(GenerationCalls) = max_retries
         /\ IF max_retries = 0
            THEN outcome.error = <<"Failed to generate valid SQL after ", "0", " attempts">>
            ELSE /\ ~calls[Len(calls)].ok
                 /\ outcome.error =
                        <<"Failed after ", ToString(max_retries),
                          " attempts. Last error: ">> \o calls[Len(calls)].error

\* A result is returned by the second pass, after a failed first one.
ReturnedAfterFailure ==
    /\ Returned
    /\ gen_result.attempts = 2
    /\ ~LoopCalls[1].ok
    /\ gen_result.sql_query = Repaired[1]

\* C3: when generate_sql_with_retry succeeds in pass k, 1 <= k <= max_retries,
\* the returned attempts is k and failed_attempts holds k - 1 entries, entry i
\* carrying the error of the i-th failed pass.
AttemptMetadata ==
    Returned =>
        /\ gen_result.attempts = Cardinality(GenerationCalls)
        /\ gen_result.attempts \in 1..max_retries
        /\ Len(gen_result.failed_attempts) = gen_result.attempts - 1
        /\ Len(Failures) = gen_result.attempts - 1
        /\ \A i \in 1..Len(Failures) :
               gen_result.failed_attempts[i].error = Failures[i].error

\* Three failed dry runs and a fourth that passes.
ThreeFailuresThenSuccess ==
    /\ Returned
    /\ gen_result.attempts = 4
    /\ Len(gen_result.failed_attempts) = 3
    /\ \A i \in 1..3 : Failures[i].op = "execute_query"

\* C4: a transport failure of the generation service is surfaced to the
\* caller at once: it ends the request with an error, is not appended to the
\* attempt history and no call follows it.
TransportFailureSurfaced ==
    \A i \in 1..Len(calls) :
        calls[i].fault = "transport" =>
            /\ i = Len(calls)
            /\ pc = "done"
            /\ outcome.kind = "raised"
            /\ \A k \in 1..Len(attempt_history) :
                   attempt_history[k].error # calls[i].error

\* C5: execute calls execute_safe_query on a statement only right after
\* validate_query accepted that statement; when validate_query rejects it,
\* execute returns success = false at once and makes no further call.
ValidatedBeforeExecuted ==
    \A i \in 1..Len(calls) :
        /\ calls[i].op = "execute_safe_query" =>
               /\ i > 1
               /\ calls[i - 1].op = "validate_query"
               /\ calls[i - 1].ok
               /\ calls[i - 1].sql = calls[i].sql
        /\ (calls[i].op = "validate_query" /\ ~calls[i].ok) =>
               /\ i = Len(calls)
               /\ pc = "done"
               /\ outcome.kind = "returned"
               /\ ~outcome.success
               /\ outcome.error = <<"Invalid SQL: ">> \o calls[i].error

\* A statement passed its dry run and was then rejected by validate_query.
RejectedAfterDryRun ==
    /\ Len(calls) >= 2
    /\ calls[Len(calls)].op = "validate_query"
    /\ ~calls[Len(calls)].ok
    /\ calls[Len(calls) - 1].op = "execute_query"
    /\ calls[Len(calls) - 1].ok

\* The statement a database call carries, without the EXPLAIN prefix.
Statement(c) == IF c.op = "execute_query" THEN SubSeq(c.sql, 3, Len(c.sql)) ELSE c.sql

\* C6: no statement that validate_query would reject is passed to
\* db.execute_query or to db.execute_safe_query, the EXPLAIN dry run included.
OnlyValidatedReachesDatabase ==
    \A i \in 1..Len(calls) :
        calls[i].op \in {"execute_query", "execute_safe_query"} =>
            validate_query(Statement(calls[i])).ok

ExecutionFailureReturned ==
    \A i \in 1..Len(calls) :
        (calls[i].op = "execute_safe_query" /\ ~calls[i].ok) =>
            /\ i = Len(calls)
            /\ pc = "done"
            /\ outcome = [NoOutcome EXCEPT !.kind = "returned",
                                           !.error = calls[i].error,
                                           !.sql_query = calls[i].sql,
                                           !.natural_query = query]
            /\ outcome.sql_query # <<>>

\* execute_safe_query raised on a statement that passed every check.
ExecutionRaised ==
    /\ Len(calls) >= 3
    /\ calls[Len(calls)].op = "execute_safe_query"
    /\ ~calls[Len(calls)].ok
    /\ calls[Len(calls) - 1].ok
    /\ calls[Len(calls) - 2].op = "execute_query"

\* C9: when the request names a count n >= 0, execute_safe_query is called
\* with max_rows = n and was_truncated is the gateway's flag; when it names
\* none, max_rows is 10,000,000 and was_truncated is false.
RequestedCountIsCap ==
    \A i \in 1..Len(calls) :
        calls[i].op = "execute_safe_query" =>
            IF _extract_limit_from_query(query) # NoLimit
            THEN /\ calls[i].max_rows = _extract_limit_from_query(query)
                 /\ calls[i].ok => outcome.was_truncated = calls[i].truncated
            ELSE /\ calls[i].max_rows = 10000000
                 /\ calls[i].ok => outcome.was_truncated = FALSE

\* ------------------------------------------------- repair on its own

\* How often the repair is applied to its own output.
MaxRepairs == 2

SelectLists ==
    { <<"*">>, <<"gid">>,
      <<"gid", ",", " ", "ST_Y", "(", "geom", ")", " ", "AS", " ", "latitude">>,
      <<"gid", ",", " ", "ST_Y", "(", "geom", ")", " ", "AS", " ", "latitude",
        ",", " ", "ST_X", "(", "geom", ")", " ", "AS", " ", "longitude">>,
      <<"gid", ",", " ">> \o CommaList(LatLonExprs),
      <<"gid", ",", " ", "ST_AsGeoJSON", "(", "geom", ")", " ", "AS", " ",
        "geojson_geom">>,
      <<"ST_AsGeoJSON", "(", "g", ".", "geom", ")", " ", "AS", " ", "geojson_geom">>,
      <<"COUNT", "(", "DISTINCT", " ", "gid", ")">> }

TableNames ==
    {"mods", "deposits", "boreholes", "geology_master", "faults",
     "gold_deposits", "zones", "wells"}

\* <op>(<first>, <second>)
Predicate(op, first, second) ==
    <<op, "(">> \o first \o <<",", " ">> \o second \o <<")">>

\* " <alias><sp>JOIN<sp><table> <other> ON <condition>"
JoinTail(alias, sp, table, other, condition) ==
    <<" ", alias, sp, "JOIN", sp, table, " ", other, " ", "ON", " ">>
    \o condition

\* " WHERE <first> ILIKE 'gold' AND <second> ILIKE 'gold'"
CommodityTail(first, second) ==
    <<" ", "WHERE", " ", first, " ", "ILIKE", " ", "'gold'", " ", "AND", " ",
      second, " ", "ILIKE", " ", "'gold'">>

Tails ==
    { <<>>,
      JoinTail("m", " ", "borholes", "b",
               Predicate("ST_DWithin", <<"m", ".", "geom">>, <<"b", ".", "geom">>)),
      JoinTail("m", "\n", "borholes", "b",
               Predicate("ST_DWithin", <<"m", ".", "geom">>, <<"b", ".", "geom">>)),
      JoinTail("m", " ", "geology_master", "g",
               Predicate("ST_Within", SetSRID(<<"m", ".", "geom">>),
                         <<"g", ".", "geom">>)),
      JoinTail("m", " ", "geology_master", "g",
               Predicate("ST_Within", <<"m", ".", "geom">>,
                         SetSRID(<<"g", ".", "geom">>))),
      JoinTail("m", " ", "geology_master", "g",
               Predicate("st_within",
                         <<"st_setsrid", "(", "m", ".", "geom", ",", " ", "3857", ")">>,
                         <<"g", ".", "geom">>)),
      JoinTail("f", " ", "geology_master", "g",
               Predicate("ST_Intersects", <<"f", ".", "geom">>, <<"g", ".", "geom">>)),
      CommodityTail("major_comm", "minor_comm"),
      CommodityTail("minor_comm", "major_comm") }

FixInputs ==
    { <<"SELECT", " ">> \o cols \o <<" ", "FROM", " ", tb>> \o tail :
        cols \in SelectLists, tb \in TableNames, tail \in Tails }

\* The query_type values a model response can carry.
SuggestedTypes == {"point", "line", "polygon", "region"}

FixInit ==
    /\ sql \in FixInputs
    /\ fixed = <<>>
    /\ suggested_type = Absent
    /\ ClientIdle
    /\ CatalogIdle
    /\ PairIdle
    /\ SessionNew
    /\ entry = "_fix_sql"
    /\ query = <<>>
    /\ use_retry = FALSE
    /\ caller = "direct"
    /\ max_results = NoLimit
    /\ max_retries = 0
    /\ pc = "repair"
    /\ attempt = 0
    /\ attempt_history = <<>>
    /\ result = Unset
    /\ gen_result = NoGen
    /\ outcome = NoOutcome
    /\ calls = <<>>

\* _fix_sql applied to the text, then to what it returned.
Repair ==
    /\ pc = "repair"
    /\ Len(fixed) < MaxRepairs
    /\ IF fixed = <<>> THEN TRUE ELSE fixed[Len(fixed)] # Raised
    /\ fixed' = Append(fixed, Then(IF fixed = <<>> THEN sql ELSE fixed[Len(fixed)],
                                    _fix_sql))
    /\ UNCHANGED <<request, pc, attempt, attempt_history, result, gen_result,
                   outcome, calls, sql, suggested_type, client, catalog, pair, session>>

\* The repaired text is classified as generate_sql does after _fix_sql, with
\* the query_type the response suggested.
Classify ==
    /\ pc = "repair"
    /\ Len(fixed) >= 1
    /\ fixed[1] # Raised
    /\ result = Unset
    /\ \E ty \in SuggestedTypes :
           /\ suggested_type' = ty
           /\ result' = [sql_query |-> fixed[1],
                         query_type |-> _determine_query_type(fixed[1], ty)]
    /\ UNCHANGED <<request, pc, attempt, attempt_history, gen_result, outcome,
                   calls, sql, fixed, client, catalog, pair, session>>

FixNext == Repair \/ Classify

FixSpec == FixInit /\ [][FixNext]_vars

\* C10: _fix_sql is idempotent: repairing a repaired statement changes
\* nothing, also when SELECT * meets a table name a later rule corrects.
RepairIdempotent == Len(fixed) >= 2 => fixed[2] = fixed[1]

\* ------------------------------------------ properties of the repair

\* The statement was repaired once and the repair returned.
RepairedOnce == Len(fixed) >= 1 /\ fixed[1] # Raised

\* The repaired statement has been classified.
IsClassified == RepairedOnce /\ result # Unset

Found(pat, s) == ReSearch(pat, s) # <<>>

\* C11: _fix_sql returns a statement for every input and never raises,
\* whatever the letter case of the function names and whichever argument of a
\* spatial predicate is already wrapped.
RepairTotal == \A k \in 1..Len(fixed) : fixed[k] # Raised

\* A call of op whose first argument is a bare geom column.
FirstBare(op) ==
    <<Kw(Lower(op)), Star(Space), One(CS({"("})), Star(Space), OptAlias,
      Kw("geom"), Star(Space), One(CS({","}))>>

\* A call of op whose second argument is a bare geom column, after a bare
\* and after a wrapped first argument.
SecondBare(op) ==
    <<Kw(Lower(op)), Star(Space), One(CS({"("})), Star(Space), OptAlias,
      Kw("geom"), Star(Space), One(CS({","})), Star(Space), OptAlias,
      Kw("geom")>>

SecondBareAfterWrapped(op) ==
    <<Kw(Lower(op)), Star(Space), One(CS({"("})), Star(Space), Kw("st_setsrid"),
      Star(Space), One(CS({"("})), Plus(Not({")"})), One(CS({")"})),
      Star(Space), One(CS({","})), Star(Space), OptAlias, Kw("geom")>>

\* C12: in the repaired statement no call of a spatial predicate over geom
\* columns has a bare geometry argument, whichever side was wrapped in the
\* input.
BothSidesWrapped ==
    RepairedOnce =>
        \A k \in 1..Len(spatial_ops) :
            /\ ~Found(FirstBare(spatial_ops[k]), fixed[1])
            /\ ~Found(SecondBare(spatial_ops[k]), fixed[1])
            /\ ~Found(SecondBareAfterWrapped(spatial_ops[k]), fixed[1])

\* C13: when the repaired statement contains a JOIN, its first SELECT is
\* SELECT DISTINCT, wherever else DISTINCT occurs and whatever whitespace
\* surrounds JOIN.
JoinIsDistinct ==
    RepairedOnce /\ Found(<<Kw("join")>>, fixed[1]) =>
        /\ Found(<<Kw("select"), Plus(Space), Kw("distinct")>>, fixed[1])
        /\ ReSearch(<<Kw("select"), Plus(Space), Kw("distinct")>>, fixed[1])[1]
               = ReSearch(<<Kw("select")>>, fixed[1])[1]

\* The statement names the table in FROM or JOIN.
Reads(s, table) ==
    Found(<<One(CI({"from", "join"})), Plus(Space), Kw(table)>>, s)

ReadsGeology(s) ==
    \E k \in 1..Len(tables_needing_geojson) : Reads(s, tables_needing_geojson[k])

ReadsPoints(s) == \E k \in 1..Len(point_tables) : Reads(s, point_tables[k])

\* The statement has an output expression with this alias.
HasAlias(s, alias) == Found(<<Kw("as"), Plus(Space), Kw(alias)>>, s)

\* C14: a repaired statement that reads a polygon or line table and no
\* point table has no latitude or longitude expression, has a geojson_geom
\* expression, and is classified polygon or line.
GeologyOutputsGeoJson ==
    RepairedOnce /\ ReadsGeology(fixed[1]) /\ ~ReadsPoints(fixed[1]) =>
        /\ ~HasAlias(fixed[1], "latitude")
        /\ ~HasAlias(fixed[1], "longitude")
        /\ HasAlias(fixed[1], "geojson_geom")
        /\ IsClassified => result.query_type \in {"polygon", "line"}

\* C15: a repaired statement classified point has a latitude and a longitude
\* expression and no geojson_geom expression of a polygon or line table.
PointOutputsLatLon ==
    IsClassified /\ result.query_type = "point" =>
        /\ HasAlias(fixed[1], "latitude")
        /\ HasAlias(fixed[1], "longitude")
        /\ ~(HasAlias(fixed[1], "geojson_geom") /\ ReadsGeology(fixed[1]))

\* The five rules of the classification, each with its condition and its
\* answer for statement s and suggested type ty.
DecisionList(s, ty) ==
    << [when |-> HasAlias(s, "latitude") /\ HasAlias(s, "longitude"),
        then |-> "point"],
       [when |-> Reads(s, "geology_faults_contacts_master")
                     # Reads(s, "geology_master"),
        then |-> IF Reads(s, "geology_master") THEN "polygon" ELSE "line"],
       [when |-> HasAlias(s, "geojson_geom"),
        then |-> CASE Found(GeoJsonFrom("f"), s) -> "line"
                   [] Found(GeoJsonFrom("g"), s) -> "polygon"
                   [] ty \in {"line", "polygon"} -> ty
                   [] OTHER -> "polygon"],
       [when |-> \E k \in 1..Len(point_tables) :
                     Found(<<Kw("from"), Plus(Space), Kw(point_tables[k])>>, s),
        then |-> "point"],
       [when |-> TRUE, then |-> ty] >>

\* The first rule whose condition holds.
FirstRule(rules) == Min({k \in 1..Len(rules) : rules[k].when})

\* C16: the query type of a classified statement is the answer of the first
\* of the five rules that applies, and when that is rule 1, 2 or 4 it is the
\* same for every suggested type.
ClassifierIsDecisionList ==
    IsClassified =>
        /\ result.query_type
               = DecisionList(fixed[1], suggested_type)[
                     FirstRule(DecisionList(fixed[1], suggested_type))].then
        /\ FirstRule(DecisionList(fixed[1], suggested_type)) \in {1, 2, 4} =>
               \A ty \in SuggestedTypes :
                   _determine_query_type(fixed[1], ty) = result.query_type

\* A statement over a point table with a geojson_geom expression of unclear
\* source and a suggested type that is neither line nor polygon.
UnclearGeoJsonSource ==
    /\ IsClassified
    /\ FirstRule(DecisionList(fixed[1], suggested_type)) = 3
    /\ DecisionList(fixed[1], suggested_type)[4].when
    /\ suggested_type = "region"
    /\ result.query_type = "polygon"

\* SELECT * FROM <table>
StarFrom(table) == SelectStarFrom \o <<Plus(Space), Kw(table)>>

\* C17: when the statement is SELECT * FROM T for a known table T, the
\* repaired statement selects the canonical column list of T, and no
\* SELECT * FROM a known table is left in a repaired statement.
StarExpanded ==
    RepairedOnce =>
        \A k \in 1..Len(StarReplacements) :
            /\ Found(StarFrom(StarReplacements[k].table), sql) =>
                   Infix(StarReplacements[k].columns
                             \o <<" ", "FROM", " ", StarReplacements[k].table>>,
                         fixed[1])
            /\ ~Found(StarFrom(StarReplacements[k].table), fixed[1])

\* <first> ILIKE <lit> AND <second> ILIKE <lit>
SameLiteralOver(first, second, lit) ==
    <<Kw(first), Plus(Space), Kw("ilike"), Plus(Space), Kw(Lower(lit)),
      Plus(Space), Kw("and"), Plus(Space), Kw(second), Plus(Space),
      Kw("ilike"), Plus(Space), Kw(Lower(lit))>>

\* C18: the repaired statement has no AND of the two commodity columns
\* compared with the same literal.
NoSameLiteralAnd ==
    RepairedOnce =>
        \A k \in 1..Len(CommodityLiterals) :
            /\ ~Found(SameLiteralOver("major_comm", "minor_comm",
                                      CommodityLiterals[k]), fixed[1])
            /\ ~Found(SameLiteralOver("minor_comm", "major_comm",
                                      CommodityLiterals[k]), fixed[1])

\* -------------------------------------- properties of the generation

\* C19: whatever object the service returns, the result of a generation
\* call has a non-empty statement, and no empty statement reaches the dry
\* run, the safety check or the execution.
GenerationYieldsStatement ==
    /\ result # Unset => result.sql_query # <<>>
    /\ \A i \in 1..Len(calls) :
           calls[i].op \in {"execute_query", "validate_query", "execute_safe_query"}
               => Statement(calls[i]) # <<>>

\* ------------------------------------------ the synthesized geometry

\* The words that can follow a table name without being its alias.
ClauseWords == {"where", "join", "order", "limit", "on", "group", "inner", "left"}

\* The first token after position p that is not whitespace, "" at the end.
Follower(s, p) ==
    LET q == SkipWS(s, p) IN IF q > Len(s) THEN "" ELSE s[q]

\* The geometry a synthesized expression is to reference for the table whose
\* name ends before position p of s.
ExpectedRef(s, p) ==
    LET f == Follower(s, p)
    IN IF p <= Len(s) /\ s[p] \in WS /\ f # "" /\ IsWord(f)
          /\ Lower(f) \notin ClauseWords
       THEN <<f, ".", "geom">> ELSE <<"geom">>

\* C26: where the repair of a statement that had neither * nor geojson_geom
\* has put a geojson_geom expression before the FROM of a polygon or line
\* table, the expression references <alias>.geom if an alias follows the
\* table and bare geom if WHERE, JOIN, ORDER, LIMIT, ';' or the end follows,
\* and it stands immediately before that FROM.
SynthesizedRefIsAliasOrBare ==
    (RepairedOnce /\ ~Contains(sql, <<"*">>) /\ ~HasAlias(sql, "geojson_geom")) =>
        \A k \in 1..Len(tables_needing_geojson) :
            LET m == ReSearch(<<Kw("from"), Plus(Space), Kw(tables_needing_geojson[k])>>,
                              fixed[1])
            IN (m # <<>> /\ HasAlias(fixed[1], "geojson_geom")) =>
                   LET expr == GeoJsonExpr(ExpectedRef(fixed[1], m[2])) \o <<" ">>
                   IN /\ m[1] > Len(expr)
                      /\ SubSeq(fixed[1], m[1] - Len(expr), m[1] - 1) = expr

\* ------------------------------------------ prompts, history and callers

\* The generation call of attempt k in the log.
NthGeneration(k) ==
    CHOOSE i \in GenerationCalls : Cardinality({j \in GenerationCalls : j <= i}) = k

\* The query as a generation prompt quotes it: what stands between the
\* opening token and the closing quote of the first prompt.
Quoted(prompt) == SubSeq(prompt, 2, Len(prompt) - 1)

\* The query names a word of the set: one of its tokens is that word.
NamesWord(q, words) == \E i \in 1..Len(q) : Lower(q[i]) \in words

HasSemanticHint(text) == \E i \in 1..Len(text) : <<text[i]>> = SemanticHint

HasRegionHint(text) == \E i \in 1..Len(text) : text[i] = "REGION: "

\* C21: the first prompt carries the NO-commodity-filter hint exactly when
\* the query has one of the words mines, deposits, sites, occurrences and
\* names none of the seven commodities; it carries a region hint only when
\* the query does not mention region; and it carries the query unchanged
\* when neither hint applies.
HintsFollowTheWords ==
    \A i \in GenerationCalls :
        calls[i].op = "generate_sql" =>
            LET processed == Quoted(calls[i].sql)
                generic == NamesWord(query, mine_words) /\ ~NamesWord(query, commodities)
                region == In("region", LowerText(query))
                city == \E k \in 1..Len(SAUDI_REGIONS) :
                            In(SAUDI_REGIONS[k][1], LowerText(query))
            IN /\ HasSemanticHint(processed) <=> generic
               /\ HasRegionHint(processed) => ~region
               /\ (~generic /\ (region \/ ~city)) => processed = query

\* The least position at or after from where part stands in text, else 0.
Position(part, text, from) ==
    LET at == {p \in from..(Len(text) - Len(part) + 1) :
                  SubSeq(text, p, p + Len(part) - 1) = part}
    IN IF at = {} THEN 0 ELSE Min(at)

\* text holds the SQL and the error of every entry, in the entries' order.
RECURSIVE InOrder(_, _, _)
InOrder(text, history, from) ==
    IF history = <<>> THEN TRUE
    ELSE LET part == history[1].sql \o <<"\nError: ">> \o history[1].error
             p == Position(part, text, from)
         IN p # 0 /\ InOrder(text, Tail(history), p + Len(part))

\* A step that issues the generation call of a retry.
RetryIssued ==
    /\ Len(calls') = Len(calls) + 1
    /\ calls'[Len(calls')].op = "_regenerate_with_feedback"

\* C23: the generation call of attempt k >= 2 is issued when attempts
\* 1..k-1 have each recorded a failure, the last call before it being the
\* failed call of attempt k-1, and its prompt holds all k-1 history entries,
\* SQL and error, in attempt order.
RetriesCarryTranscript ==
    [][RetryIssued =>
          /\ attempt' >= 2
          /\ Len(attempt_history) = attempt' - 1
          /\ calls # <<>> /\ IsFailure(calls[Len(calls)])
          /\ Cardinality(GenerationCalls) = attempt' - 1
          /\ InOrder(calls'[Len(calls')].sql, attempt_history, 1)]_vars

\* A third attempt was issued: its prompt had two entries to carry.
ThirdAttemptIssued ==
    /\ attempt = 3
    /\ Cardinality(GenerationCalls) = 3
    /\ attempt_history[1] # attempt_history[2]

GeometryKinds == {"point", "line", "polygon"}

\* C25: every result of a generation call, every result handed back by the
\* loop and every successful answer of execute has a query_type among
\* point, line, polygon, whatever type the service suggested.
QueryTypeIsGeometryKind ==
    /\ result # Unset => result.query_type \in GeometryKinds
    /\ gen_result # NoGen => gen_result.query_type \in GeometryKinds
    /\ (outcome.kind = "returned" /\ outcome.success)
           => outcome.query_type \in GeometryKinds

\* C27: entry k of the history holds the SQL that attempt k produced, or
\* N/A when the generation call of attempt k failed.
HistoryPairsOwnAttempt ==
    \A k \in 1..Len(attempt_history) :
        LET i == NthGeneration(k)
        IN attempt_history[k].sql =
               IF calls[i].ok THEN Statement(calls[i + 1]) ELSE Text("N/A")

\* C28: every generation prompt of a request quotes the query with the hints
\* the first prompt quoted it with.
EveryPromptCarriesHints ==
    \A i \in GenerationCalls :
        Infix(Quoted(calls[NthGeneration(1)].sql), calls[i].sql)

\* C29: a statement the HTTP layer's handlers have executed through
\* execute_safe_query was dry-run with success earlier in the same request.
HttpExecutesOnlyDryRun ==
    caller \in {"_handle_sql_query", "export_data"} =>
        \A i \in 1..Len(calls) :
            calls[i].op = "execute_safe_query" =>
                \E j \in 1..(i - 1) :
                    /\ calls[j].op = "execute_query"
                    /\ calls[j].ok
                    /\ calls[j].sql = <<"EXPLAIN", " ">> \o calls[i].sql

\* ------------------------------------------ generate_json on its own

RECURSIVE Pad(_)
Pad(n) ==
    IF n = 0 THEN "" ELSE IF n = 1 THEN "x"
    ELSE Pad(n \div 2) \o Pad(n - (n \div 2))

\* A word of prose longer than the error message's share of the text.
LongWord == Pad(ErrorChars + 50)

Statement1 == <<"\"sql_query\"", ":", " ", "\"SELECT gid FROM mods\"">>

\* What the model writes around and instead of the JSON object.
Leads == { <<>>, <<"Here", " ", "is", " ">>, <<"~~~json", "\n">>, <<"~~~", "\n">> }

Bodies ==
    { <<"{">> \o Statement1 \o <<"}">>,
      <<"{">> \o Statement1 \o <<",", "\n", "}">>,
      <<"{", "\"meta\"", ":", " ", "{", "\"query_type\"", ":", " ", "\"point\"",
        ",", "}", ",", " ">> \o Statement1 \o <<"}">>,
      <<"{", " ", "Here", " ", "{">> \o Statement1 \o <<"}", " ", "}">>,
      <<"{">> \o Statement1 \o <<"}", " ", "is", " ", "{", "\"query_type\"", ":",
        " ", "\"point\"", "}">>,
      <<"{", "\"meta\"", ":", " ", "{", "\"meta\"", ":", " ", "{", "}", "}", ",",
        " ", "is", "}">>,
      <<"[", "\"point\"", "]">>,
      <<"Here", " ", "is">>,
      <<"{", " ", LongWord, " ", "}">>,
      <<>> }

Trails == { <<>>, <<"\n", "~~~">>, <<" ", "is">>, <<"\n", "~~~", " ", "is", " ", "}">> }

Completions ==
    { lead \o body \o trail : lead \in Leads, body \in Bodies, trail \in Trails }

JsonInit ==
    /\ raw = <<>>
    /\ response = <<>>
    /\ client_pc = "call"
    /\ reply = NoReply
    /\ requests = 0
    /\ entry = "generate_json"
    /\ query = <<>>
    /\ use_retry = FALSE
    /\ caller = "direct"
    /\ max_results = NoLimit
    /\ max_retries = 0
    /\ pc = "client"
    /\ attempt = 0
    /\ attempt_history = <<>>
    /\ result = Unset
    /\ gen_result = NoGen
    /\ outcome = NoOutcome
    /\ calls = <<>>
    /\ sql = <<>>
    /\ fixed = <<>>
    /\ suggested_type = Absent
    /\ CatalogIdle
    /\ PairIdle
    /\ SessionNew

controller == <<generator, catalog, pair, session>>

\* return json.loads(...)
ReturnValue(value) == [kind |-> "returned", value |-> value]

\* An exception of generate passes through generate_json.
Propagate(e) == [kind |-> "transport", value |-> e]

\* raise ValueError(...)
RaiseValueError(message) == [kind |-> "raised", value |-> message]

\* response = await self.generate(...); response = response.strip()
Request ==
    /\ client_pc = "call"
    /\ requests' = requests + 1
    /\ \/ \E text \in Completions :
            /\ raw' = text
            /\ response' = Strip(text)
            /\ client_pc' = "clean"
            /\ reply' = reply
       \/ \E e \in TransportErrors :
            /\ reply' = Propagate(e)
            /\ client_pc' = "done"
            /\ UNCHANGED <<raw, response>>
    /\ UNCHANGED controller

\* The fences are removed, then the text is cut from its first { to its
\* last }.
Clean ==
    /\ client_pc = "clean"
    /\ response' = SliceBraces(StripFences(response))
    /\ client_pc' = "parse"
    /\ UNCHANGED <<raw, reply, requests, controller>>

\* A try block of json.loads(text): the value is returned, or the except
\* branch at position next is entered.
Try_json_loads(value, next) ==
    IF value # NotJson
    THEN reply' = ReturnValue(value) /\ client_pc' = "done"
    ELSE reply' = reply /\ client_pc' = next

Parse ==
    /\ client_pc = "parse"
    /\ Try_json_loads(json_loads(response), "fix")
    /\ UNCHANGED <<raw, response, requests, controller>>

\* The first except branch: the trailing commas go, then the second parse.
Fix ==
    /\ client_pc = "fix"
    /\ response' = RemoveTrailingCommas(response)
    /\ Try_json_loads(json_loads(response'), "extract")
    /\ UNCHANGED <<raw, requests, controller>>

\* The second except branch: the first JSON-like structure is parsed, or the
\* ValueError is raised.
Extracted(value) ==
    IF value # NotJson
    THEN reply' = ReturnValue(value)
    ELSE reply' = RaiseValueError(MalformedResponse(response))

Extract ==
    /\ client_pc = "extract"
    /\ Extracted(json_loads(json_match(response)))
    /\ client_pc' = "done"
    /\ UNCHANGED <<raw, response, requests, controller>>

JsonNext == Request \/ Clean \/ Parse \/ Fix \/ Extract

JsonSpec == JsonInit /\ [][JsonNext]_vars

\* The text after fence stripping, brace slicing and trailing-comma removal.
Cleaned(text) == RemoveTrailingCommas(SliceBraces(StripFences(Strip(text))))

\* The texts the recovery steps give to the parser, in their order: the
\* sliced text, the text without trailing commas, the extracted structure.
Recoveries(text) ==
    << SliceBraces(StripFences(Strip(text))), Cleaned(text),
       json_match(Cleaned(text)) >>

Recovered(text) == {k \in 1..3 : json_loads(Recoveries(text)[k]) # NotJson}

UpperCase == "ABCDEFGHIJKLMNOPQRSTUVWXYZ"

LowerCase == "abcdefghijklmnopqrstuvwxyz"

LowerChar(c) ==
    IF \E i \in 1..Len(UpperCase) : SubSeq(UpperCase, i, i) = c
    THEN LET i == CHOOSE i \in 1..Len(UpperCase) : SubSeq(UpperCase, i, i) = c
         IN SubSeq(LowerCase, i, i)
    ELSE c

RECURSIVE LowerChars(_)
LowerChars(s) ==
    IF Len(s) = 0 THEN ""
    ELSE LowerChars(SubSeq(s, 1, Len(s) - 1)) \o LowerChar(SubSeq(s, Len(s), Len(s)))

RECURSIVE StripChars(_)
StripChars(s) ==
    IF Len(s) = 0 THEN s
    ELSE IF SubSeq(s, 1, 1) = " " THEN StripChars(SubSeq(s, 2, Len(s)))
    ELSE IF SubSeq(s, Len(s), Len(s)) = " " THEN StripChars(SubSeq(s, 1, Len(s) - 1))
    ELSE s

DigitChars == "0123456789"

\* str.isdigit()
IsDigit(s) ==
    /\ Len(s) > 0
    /\ \A i \in 1..Len(s) :
           \E d \in 1..Len(DigitChars) : SubSeq(DigitChars, d, d) = SubSeq(s, i, i)

\* int(s) of a string of digits
RECURSIVE IntOf(_)
IntOf(s) ==
    IF Len(s) = 0 THEN 0
    ELSE 10 * IntOf(SubSeq(s, 1, Len(s) - 1))
         + ((CHOOSE d \in 1..Len(DigitChars) :
                 SubSeq(DigitChars, d, d) = SubSeq(s, Len(s), Len(s))) - 1)

\* list(POINT_ANALYSES.keys()) and the two other catalogues
POINT_ANALYSES == <<"clustering", "regional", "commodity", "geology_correlation">>

LINE_ANALYSES ==
    <<"total_length", "orientation", "line_density", "intersections", "buffer_zones">>

POLYGON_ANALYSES ==
    <<"area_stats", "coverage", "overlap_detection", "boundary_length",
      "litho_distribution">>

explicit_analysis_patterns ==
    << <<"cluster analysis", "clustering">>, <<"clustering analysis", "clustering">>,
       <<"do cluster", "clustering">>, <<"run cluster", "clustering">>,
       <<"cluster the", "clustering">>, <<"regional analysis", "regional">>,
       <<"regional distribution", "regional">>, <<"commodity analysis", "commodity">>,
       <<"commodity breakdown", "commodity">>,
       <<"geology correlation", "geology_correlation">>,
       <<"geology analysis", "geology_correlation">> >>

analysis_keywords ==
    << <<"cluster", "clustering">>, <<"clustering", "clustering">>,
       <<"regional", "regional">>, <<"commodity", "commodity">>,
       <<"geology correlation", "geology_correlation">> >>

\* The value of the first pair whose text is in the input, "" if none is.
FirstIn(pairs, text) ==
    LET hits == {k \in 1..Len(pairs) : In(pairs[k][1], text)}
    IN IF hits = {} THEN "" ELSE pairs[Min(hits)][2]

\* (is_analysis, analysis_key); None is written "".
Selected(key) == [is_analysis |-> TRUE, analysis_key |-> key]

NotSelected == [is_analysis |-> FALSE, analysis_key |-> ""]

\* The number branch: the full catalogue of the last query's type.
NumberSelection(num, query_type) ==
    LET analyses == CASE query_type = "point" -> POINT_ANALYSES
                      [] query_type = "line" -> LINE_ANALYSES
                      [] query_type = "polygon" -> POLYGON_ANALYSES
                      [] OTHER -> <<>>
    IN IF 1 <= num /\ num <= Len(analyses) THEN Selected(analyses[num])
       ELSE NotSelected

LongInput == 30

ShortInput == 15

\* What follows the number branch when it did not return.
KeywordSelection(text) ==
    IF Len(text) > LongInput THEN NotSelected
    ELSE IF ~(In("analysis", text) \/ In("analyze", text) \/ In("run ", text)
              \/ Len(text) < ShortInput)
    THEN NotSelected
    ELSE IF FirstIn(analysis_keywords, text) # ""
    THEN Selected(FirstIn(analysis_keywords, text))
    ELSE NotSelected

is_analysis_request(input, pending, query_type) ==
    LET text == LowerChars(StripChars(input))
    IN IF FirstIn(explicit_analysis_patterns, text) # ""
       THEN Selected(FirstIn(explicit_analysis_patterns, text))
       ELSE IF ~pending THEN NotSelected
       ELSE IF IsDigit(text) /\ query_type \notin {"point", "line", "polygon"}
       THEN NotSelected
       ELSE IF IsDigit(text)
               /\ NumberSelection(IntOf(text), query_type).is_analysis
       THEN NumberSelection(IntOf(text), query_type)
       ELSE KeywordSelection(text)

\* A result set: the number of its rows and the columns of its first row;
\* kind is the geometry type of a geojson_geom value.
Rows(n, columns, kind) == [rows |-> n, sample |-> columns, kind |-> kind]

NoData == Rows(0, {}, "")

detect_data_type(data, query_type) ==
    IF query_type \notin {"None", ""} THEN query_type
    ELSE IF data.rows = 0 THEN "unknown"
    ELSE IF "latitude" \in data.sample \/ "lat" \in data.sample THEN "point"
    ELSE IF "geojson_geom" \in data.sample /\ data.kind \in {"point", "line", "polygon"}
    THEN data.kind
    ELSE "point"

ClusteringRows == 5

_filter_point_analyses(data, tables_used, row_count) ==
    (IF row_count >= ClusteringRows THEN <<"clustering">> ELSE <<>>)
    \o (IF "region" \in data.sample \/ "admin_region" \in data.sample
        THEN <<"regional">> ELSE <<>>)
    \o (IF "mods" \in tables_used \/ "major_comm" \in data.sample
        THEN <<"commodity">> ELSE <<>>)
    \o <<"geology_correlation">>

SuggestionRows == 3

\* analysis_pending and analyses_available of get_analysis_suggestions
Suggests(data, query_type) ==
    detect_data_type(data, query_type) = "point" /\ data.rows >= SuggestionRows

get_analysis_suggestions(data, query_type, tables_used) ==
    IF Suggests(data, query_type)
    THEN _filter_point_analyses(data, tables_used, data.rows)
    ELSE <<>>

\* The largest result set and the longest session.
MaxRows == 5

MaxTurns == 2

Samples ==
    { {"latitude"}, {"latitude", "region"}, {"latitude", "major_comm"},
      {"latitude", "region", "major_comm"} }

DataSets ==
    {NoData} \cup {Rows(n, s, "") : n \in 2..MaxRows, s \in Samples}
    \cup {Rows(SuggestionRows, {"geojson_geom"}, "polygon")}

\* What execute answers to the orchestrator; None is written "None".
ExecuteResults ==
    {[success |-> FALSE, data |-> NoData, query_type |-> "None", tables_used |-> {}]}
    \cup {[success |-> TRUE, data |-> d, query_type |-> ty, tables_used |-> {tb}] :
            d \in DataSets, ty \in {"point", "line", "polygon", "None"},
            tb \in {"mods", "borholes"}}

UserInputs ==
    {"", " ", "1", "2", "3", "4", "5", " 2 ", "12", "show mines",
     "Cluster Analysis", "commodity"}

Answer(kind, key, input) == [kind |-> kind, analysis_key |-> key, input |-> input]

AgentInit ==
    /\ SessionNew
    /\ CatalogIdle
    /\ PairIdle
    /\ ClientIdle
    /\ entry = "process"
    /\ query = <<>>
    /\ use_retry = TRUE
    /\ caller = "direct"
    /\ max_results = NoLimit
    /\ max_retries = DefaultMaxRetries
    /\ pc = "session"
    /\ attempt = 0
    /\ attempt_history = <<>>
    /\ result = Unset
    /\ gen_result = NoGen
    /\ outcome = NoOutcome
    /\ calls = <<>>
    /\ sql = <<>>
    /\ fixed = <<>>
    /\ suggested_type = Absent

agent == <<analysis_pending, last_query_type, last_query_data>>

\* if not user_input: the input is refused, nothing else happens.
EmptyInput(user_input) ==
    /\ StripChars(user_input) = ""
    /\ answer' = Answer("empty", "", user_input)
    /\ UNCHANGED <<agent, last_query_result, shown>>

\* _handle_analysis_request with the data of the last query, if it has any.
AnalysisRequest(user_input, analysis_key) ==
    /\ IF last_query_result # <<>> /\ last_query_result[1].data.rows > 0
       THEN \E ok \in BOOLEAN :
                answer' = Answer(IF ok THEN "analysis" ELSE "analysis failed",
                                 analysis_key, user_input)
       ELSE answer' = Answer("no data", analysis_key, user_input)
    /\ UNCHANGED <<agent, last_query_result, shown>>

\* clear_pending, then _handle_data_query with the answer r of execute.
DataQuery(user_input, r) ==
    IF r.success
    THEN /\ last_query_result' = <<r>>
         /\ last_query_data' = <<r.data>>
         /\ last_query_type' = r.query_type
         /\ analysis_pending' = Suggests(r.data, r.query_type)
         /\ shown' = get_analysis_suggestions(r.data, r.query_type, r.tables_used)
         /\ answer' = Answer("data", "", user_input)
    ELSE /\ analysis_pending' = FALSE
         /\ last_query_data' = <<>>
         /\ last_query_type' = "None"
         /\ shown' = <<>>
         /\ answer' = Answer("query failed", "", user_input)
         /\ UNCHANGED last_query_result

Selection(user_input) ==
    is_analysis_request(StripChars(user_input), analysis_pending, last_query_type)

Refuse ==
    /\ turns < MaxTurns
    /\ \E user_input \in UserInputs : EmptyInput(user_input)
    /\ turns' = turns + 1
    /\ UNCHANGED <<generator, client, catalog, pair>>

Analyse ==
    /\ turns < MaxTurns
    /\ \E user_input \in UserInputs :
         /\ StripChars(user_input) # ""
         /\ Selection(user_input).is_analysis
         /\ Selection(user_input).analysis_key # ""
         /\ AnalysisRequest(user_input, Selection(user_input).analysis_key)
    /\ turns' = turns + 1
    /\ UNCHANGED <<generator, client, catalog, pair>>

Ask ==
    /\ turns < MaxTurns
    /\ \E user_input \in UserInputs :
         /\ StripChars(user_input) # ""
         /\ ~(Selection(user_input).is_analysis
              /\ Selection(user_input).analysis_key # "")
         /\ \E r \in ExecuteResults : DataQuery(user_input, r)
    /\ turns' = turns + 1
    /\ UNCHANGED <<generator, client, catalog, pair>>

AgentNext == Refuse \/ Analyse \/ Ask

AgentSpec == AgentInit /\ [][AgentNext]_vars

\* The input of the step, as digits.
Typed == StripChars(answer'.input)

\* C30: a number k typed right after a data query whose message listed
\* analyses 1..m (k <= m) runs the analysis listed as number k; a number
\* selects an analysis only while one is pending; and an input handled as a
\* data query clears the pending state before the query, so that a failed
\* query leaves none pending.
NumberRunsListedAnalysis ==
    [][turns' = turns + 1 =>
          /\ (answer.kind = "data" /\ shown # <<>> /\ IsDigit(Typed)
              /\ 1 <= IntOf(Typed) /\ IntOf(Typed) <= Len(shown))
                 => /\ answer'.kind \in {"analysis", "analysis failed"}
                    /\ answer'.analysis_key = shown[IntOf(Typed)]
          /\ (IsDigit(Typed) /\ answer'.analysis_key # "") => analysis_pending
          /\ answer'.kind = "query failed" => ~analysis_pending']_vars

\* ------------------------------------------ the catalog and its rebuild

\* tables_columns, in iteration order, cut down to three of its columns.
Slots ==
    << <<"mods", "major_comm">>, <<"mods", "region">>,
       <<"geology_master", "litho_fmly">> >>

\* What the SELECT DISTINCT of a column can give: its values, stripped and
\* non-empty; no values when it returns no rows or raises.
ColumnAnswers == {<<>>, <<"Gold">>, <<"Copper", "Gold">>}

\* priority_map.get(column, 20)
DefaultPriority == 20

priority_map ==
    [column \in {"region", "major_comm", "litho_fmly"} |->
        CASE column = "region" -> 100
          [] column = "major_comm" -> 60
          [] column = "litho_fmly" -> 70]

Priority(column) ==
    IF column \in DOMAIN priority_map THEN priority_map[column] ELSE DefaultPriority

\* d[k] = v on a dictionary
Put(d, k, v) == (k :> v) @@ d

\* self._column_values[table] = {}
OpenTable(values, table) == Put(values, table, <<>>)

\* self._column_values[table][column] = values
StoreColumn(values, table, column, found) ==
    Put(values, table, Put(values[table], column, found))

\* The appends of one column's values to the lists of their lower-cased keys.
RECURSIVE MapValues(_, _, _, _)
MapValues(mapping, table, column, found) ==
    IF found = <<>> THEN mapping
    ELSE LET value_lower == LowerChars(found[1])
             item == [table |-> table, column |-> column,
                      original_value |-> found[1], priority |-> Priority(column)]
             before == IF value_lower \in DOMAIN mapping THEN mapping[value_lower]
                       ELSE <<>>
         IN MapValues(Put(mapping, value_lower, Append(before, item)),
                      table, column, Tail(found))

\* list.sort(key=priority, reverse=True): stable, highest priority first.
RECURSIVE SortByPriority(_)
SortByPriority(items) ==
    IF Len(items) <= 1 THEN items
    ELSE LET top == Min({k \in 1..Len(items) :
                            \A j \in 1..Len(items) :
                                items[k].priority >= items[j].priority})
         IN <<items[top]>>
            \o SortByPriority(SubSeq(items, 1, top - 1)
                              \o SubSeq(items, top + 1, Len(items)))

SortAll(mapping) == [k \in DOMAIN mapping |-> SortByPriority(mapping[k])]

\* The catalog after slots 1..n were loaded with the given answers.
RECURSIVE Loaded(_, _)
Loaded(answers, n) ==
    IF n = 0 THEN <<>>
    ELSE LET before == Loaded(answers, n - 1)
             table == Slots[n][1]
             opened == IF table \in DOMAIN before THEN before
                       ELSE OpenTable(before, table)
         IN StoreColumn(opened, table, Slots[n][2], answers[n])

\* The index after the first n columns of the catalog were mapped.
RECURSIVE Mapped(_, _)
Mapped(values, n) ==
    IF n = 0 THEN <<>>
    ELSE MapValues(Mapped(values, n - 1), Slots[n][1], Slots[n][2],
                   values[Slots[n][1]][Slots[n][2]])

\* _build_reverse_mapping of a whole catalog
ReverseOf(values) == SortAll(Mapped(values, Len(Slots)))

\* The number of rebuilds after construction.
MaxRefreshes == 1

LoaderAt(stage, n) == [loader EXCEPT !.pc = stage, !.at = n]

CatalogInit ==
    /\ \E answers \in [1..Len(Slots) -> ColumnAnswers] :
         /\ _column_values = Loaded(answers, Len(Slots))
         /\ _reverse_mapping = ReverseOf(_column_values)
    /\ loader = [pc |-> "idle", at |-> 0, refreshes |-> 0]
    /\ seen = <<>>
    /\ SessionNew
    /\ PairIdle
    /\ ClientIdle
    /\ entry = "refresh_column_values"
    /\ query = <<>>
    /\ use_retry = TRUE
    /\ caller = "direct"
    /\ max_results = NoLimit
    /\ max_retries = DefaultMaxRetries
    /\ pc = "catalog"
    /\ attempt = 0
    /\ attempt_history = <<>>
    /\ result = Unset
    /\ gen_result = NoGen
    /\ outcome = NoOutcome
    /\ calls = <<>>
    /\ sql = <<>>
    /\ fixed = <<>>
    /\ suggested_type = Absent

others == <<generator, client, pair, session>>

\* refresh_column_values enters _load_column_values: self._column_values = {}
ResetCatalog ==
    /\ loader.pc = "idle"
    /\ loader.refreshes < MaxRefreshes
    /\ _column_values' = <<>>
    /\ loader' = LoaderAt("load", 1)
    /\ UNCHANGED <<_reverse_mapping, seen, others>>

\* One pass of the inner loop, with self._column_values[table] = {} before
\* the first column of a table.
LoadColumn ==
    /\ loader.pc = "load"
    /\ LET table == Slots[loader.at][1]
           column == Slots[loader.at][2]
       IN IF table \notin DOMAIN _column_values
          THEN /\ _column_values' = OpenTable(_column_values, table)
               /\ loader' = loader
          ELSE /\ \E found \in ColumnAnswers :
                    _column_values' = StoreColumn(_column_values, table, column, found)
               /\ loader' = IF loader.at = Len(Slots) THEN LoaderAt("reverse", 0)
                            ELSE LoaderAt("load", loader.at + 1)
    /\ UNCHANGED <<_reverse_mapping, seen, others>>

\* _build_reverse_mapping: self._reverse_mapping = {}
ResetReverse ==
    /\ loader.pc = "reverse"
    /\ _reverse_mapping' = <<>>
    /\ loader' = LoaderAt("map", 1)
    /\ UNCHANGED <<_column_values, seen, others>>

\* The values of one column are appended to the index.
MapColumn ==
    /\ loader.pc = "map"
    /\ LET table == Slots[loader.at][1]
           column == Slots[loader.at][2]
       IN _reverse_mapping' =
              MapValues(_reverse_mapping, table, column, _column_values[table][column])
    /\ loader' = IF loader.at = Len(Slots) THEN LoaderAt("sort", 0)
                 ELSE LoaderAt("map", loader.at + 1)
    /\ UNCHANGED <<_column_values, seen, others>>

\* The lists of the index are sorted; the rebuild is over.
SortIndex ==
    /\ loader.pc = "sort"
    /\ _reverse_mapping' = SortAll(_reverse_mapping)
    /\ loader' = [pc |-> "idle", at |-> 0, refreshes |-> loader.refreshes + 1]
    /\ UNCHANGED <<_column_values, seen, others>>

\* A reader on another thread takes the catalog and the index as they are.
Read ==
    /\ seen' = <<[values |-> _column_values, mapping |-> _reverse_mapping]>>
    /\ seen' # seen
    /\ UNCHANGED <<_column_values, _reverse_mapping, loader, others>>

CatalogNext ==
    \/ ResetCatalog
    \/ LoadColumn
    \/ ResetReverse
    \/ MapColumn
    \/ SortIndex
    \/ Read

CatalogSpec == CatalogInit /\ [][CatalogNext]_vars

\* Every table and every column of tables_columns is in the catalog.
Complete(values) ==
    \A n \in 1..Len(Slots) :
        /\ Slots[n][1] \in DOMAIN values
        /\ Slots[n][2] \in DOMAIN values[Slots[n][1]]

\* C22: what a reader sees is a complete catalog, never an empty or a
\* half-populated one, together with the index built from that catalog.
ReaderSeesCompletePair ==
    seen # <<>> =>
        /\ Complete(seen[1].values)
        /\ seen[1].mapping = ReverseOf(seen[1].values)

\* ------------------------------------------ two requests interleaved

important_cols ==
    << <<"mods", <<"major_comm", "region", "occ_imp">> >>,
       <<"geology_master", <<"litho_fmly", "main_litho", "terrane">> >>,
       <<"geology_faults_contacts_master", <<"newtype">> >> >>

SampleValues == 6

\* ', '.join(vals)
RECURSIVE CommaJoined(_)
CommaJoined(vals) ==
    IF Len(vals) = 1 THEN vals[1] ELSE vals[1] \o ", " \o CommaJoined(Tail(vals))

\* The lines of one column: f"  {col}: {', '.join(vals)}" if it has values.
ColumnLine(values, table, col) ==
    LET listed == IF col \in DOMAIN values[table] THEN values[table][col] ELSE <<>>
        vals == SubSeq(listed, 1, Min({Len(listed), SampleValues}))
    IN IF vals # <<>> THEN <<"  " \o col \o ": " \o CommaJoined(vals)>> ELSE <<>>

RECURSIVE ColumnLines(_, _, _)
ColumnLines(values, table, cols) ==
    IF cols = <<>> THEN <<>>
    ELSE ColumnLine(values, table, cols[1]) \o ColumnLines(values, table, Tail(cols))

RECURSIVE SchemaLines(_, _)
SchemaLines(values, k) ==
    IF k > Len(important_cols) THEN <<>>
    ELSE (IF important_cols[k][1] \notin DOMAIN values THEN <<>>
          ELSE <<important_cols[k][1] \o ":">>
               \o ColumnLines(values, important_cols[k][1], important_cols[k][2])
               \o <<"">>)
         \o SchemaLines(values, k + 1)

\* "\n".join(lines)
RECURSIVE LinesJoined(_)
LinesJoined(lines) ==
    IF Len(lines) = 1 THEN lines[1] ELSE lines[1] \o "\n" \o LinesJoined(Tail(lines))

_build_dynamic_schema_prompt(values) ==
    LinesJoined(<<"SAMPLE VALUES FROM DATABASE:\n">> \o SchemaLines(values, 1))

\* The locals of one call of execute and of the loop it runs.
Started(q) ==
    [query |-> q, pc |-> "loop", attempt |-> 0, attempt_history |-> <<>>,
     result |-> Unset, gen_result |-> NoGen, outcome |-> NoOutcome,
     prompts |-> <<>>]

\* The frame every request would use if the locals were shared.
SharedLocals(i, fs) == fs[1]

\* attempt, attempt_history, result and gen_result are locals of the call.
Locals(i, fs) == fs[i]

\* The except branch of the loop on a frame.
ExceptIn(f, e) ==
    [f EXCEPT !.attempt_history = Append(@, HistoryEntry(f.result, e)),
              !.outcome = IF Exhausted(f.attempt, DefaultMaxRetries)
                          THEN Raises(TerminalError(DefaultMaxRetries, e)) ELSE @,
              !.pc = IF Exhausted(f.attempt, DefaultMaxRetries) THEN "done"
                     ELSE "loop"]

\* The pass of the loop up to the return of the generation call, which was
\* sent the schema of the catalog and the prompt and answered r.
AfterGeneration(f, r, values) ==
    LET n == f.attempt + 1
        sent == [system |-> _build_dynamic_schema_prompt(values),
                 prompt |-> IF n = 1 THEN GenerationPrompt(f.query)
                            ELSE retry_prompt(f.query, f.attempt_history)]
        g == IF n = 1 THEN generate_sql(r) ELSE _regenerate_with_feedback(r)
        called == [f EXCEPT !.attempt = n, !.prompts = Append(@, sent)]
    IN IF g.ok THEN [called EXCEPT !.result = g.result, !.pc = "explain"]
       ELSE ExceptIn(called, g.error)

\* The dry run answered d.
AfterDryRun(f, d) ==
    IF d.ok
    THEN [f EXCEPT !.gen_result = Accepted(f.result, f.attempt, f.attempt_history),
                   !.pc = "validate"]
    ELSE ExceptIn(f, d.error)

AfterValidation(f) ==
    LET v == validate_query(f.gen_result.sql_query)
    IN IF Rejects(v.ok)
       THEN [f EXCEPT !.outcome = Failed(Text("Invalid SQL: ") \o v.reason,
                                         f.gen_result.sql_query, f.query),
                      !.pc = "done"]
       ELSE [f EXCEPT !.pc = "run"]

AfterExecution(f, d) ==
    [f EXCEPT !.outcome =
                  IF d.ok
                  THEN Succeeded(f.gen_result, d.truncated,
                                 _extract_limit_from_query(f.query), f.query)
                  ELSE Failed(d.error, f.gen_result.sql_query, f.query),
              !.pc = "done"]

\* What a collaborator answers: the generation service a response, the
\* database a success or an error.
Responded(r) ==
    [by |-> "service", response |-> r, ok |-> TRUE, error |-> <<>>, truncated |-> FALSE]

Answered(ok, e, truncated) ==
    [by |-> "database", response |-> Failure(<<>>), ok |-> ok, error |-> e,
     truncated |-> truncated]

NoCall == Answered(TRUE, <<>>, FALSE)

PairResponses ==
    {Failure(<<"LLM server error: ", "status_code">>), Object(TRUE, 1, Absent)}

DryRunAnswers == {Answered(TRUE, <<>>, FALSE)} \cup {Answered(FALSE, e, FALSE) : e \in DbErrors}

ExecutionAnswers ==
    {Answered(TRUE, <<>>, FALSE)} \cup {Answered(FALSE, e, FALSE) : e \in DbErrors}

\* The step of a request from where it stands, given the answer.
Step(f, a, values) ==
    CASE f.pc = "loop" -> AfterGeneration(f, a.response, values)
      [] f.pc = "explain" -> AfterDryRun(f, a)
      [] f.pc = "validate" -> AfterValidation(f)
      [] f.pc = "run" -> AfterExecution(f, a)
      [] OTHER -> f

\* The request run alone with the same answers.
RECURSIVE Alone(_, _, _)
Alone(f, answers, values) ==
    IF answers = <<>> THEN f
    ELSE Alone(Step(f, answers[1], values), Tail(answers), values)

PairQueries == << <<"show", " ", "mines">>, <<"mines", " ", "in", " ", "Riyadh">> >>

PairCatalogs ==
    { Loaded(<<<<>>, <<>>, <<>>>>, Len(Slots)),
      Loaded(<<<<"Copper", "Gold">>, <<>>, <<"Gold">>>>, Len(Slots)) }

PairInit ==
    /\ frames = [i \in 1..Len(PairQueries) |-> Started(PairQueries[i])]
    /\ replies = [i \in 1..Len(PairQueries) |-> <<>>]
    /\ _column_values \in PairCatalogs
    /\ _reverse_mapping = ReverseOf(_column_values)
    /\ loader = [pc |-> "idle", at |-> 0, refreshes |-> 0]
    /\ seen = <<>>
    /\ SessionNew
    /\ ClientIdle
    /\ entry = "execute"
    /\ query = <<>>
    /\ use_retry = TRUE
    /\ caller = "direct"
    /\ max_results = NoLimit
    /\ max_retries = DefaultMaxRetries
    /\ pc = "pair"
    /\ attempt = 0
    /\ attempt_history = <<>>
    /\ result = Unset
    /\ gen_result = NoGen
    /\ outcome = NoOutcome
    /\ calls = <<>>
    /\ sql = <<>>
    /\ fixed = <<>>
    /\ suggested_type = Absent

\* Request i is resumed with the answer a to the call it was suspended at.
Resumed(i, a) ==
    /\ frames' = [frames EXCEPT ![i] = Step(Locals(i, frames), a, _column_values)]
    /\ replies' = [replies EXCEPT ![i] = Append(@, a)]
    /\ UNCHANGED <<generator, client, catalog, session>>

ResumeGeneration ==
    \E i \in DOMAIN frames :
        /\ frames[i].pc = "loop"
        /\ \E r \in PairResponses : Resumed(i, Responded(r))

ResumeDryRun ==
    \E i \in DOMAIN frames :
        /\ frames[i].pc = "explain"
        /\ \E d \in DryRunAnswers : Resumed(i, d)

Check ==
    \E i \in DOMAIN frames :
        /\ frames[i].pc = "validate"
        /\ Resumed(i, NoCall)

ResumeExecution ==
    \E i \in DOMAIN frames :
        /\ frames[i].pc = "run"
        /\ \E d \in ExecutionAnswers : Resumed(i, d)

PairNext == ResumeGeneration \/ ResumeDryRun \/ Check \/ ResumeExecution

PairSpec == PairInit /\ [][PairNext]_vars

====
